---- MODULE Spec2Model ----
(***************************************************************************)
(* zwift2fit: the FIT workout encoder of fit_writer.py (target formula,    *)
(* message encoder, CRC engine, file assembler) as a state machine.        *)
(*                                                                         *)
(* Numbers.  Power fractions are binary fractions q/4 (q an integer number *)
(* of quarters: 0.5 is q = 2, 0.75 is q = 3).  On these inputs and integer *)
(* ftp every product and sum of calculate_ftp_targets is a rational with   *)
(* denominator 4 or 40 and Python's double arithmetic followed by int()    *)
(* gives the same integers as exact arithmetic followed by truncation, so  *)
(* a float is modelled as the pair numerator/denominator it stands for.    *)
(*                                                                         *)
(* Optional values.  Python's None is the integer None below, which is     *)
(* outside every range a fraction, an ftp or a duration is drawn from.     *)
(***************************************************************************)
EXTENDS Integers, Sequences, FiniteSets, TLC

VARIABLES
    args,                 \* arguments of the last calculate_ftp_targets call
    ret,                  \* what that call returned or raised
    data_records,         \* FITFileWriter.data_records
    local_message_types,  \* FITFileWriter.local_message_types
    next_local_type,      \* FITFileWriter.next_local_type
    disk,                 \* the file at output_path: [exists, bytes]
    phase,                \* position of the running write_fit_file
    next_record,          \* index of the next record its loop writes
    data_size,            \* its local data_size
    crc,                  \* its local crc
    call,                 \* the last method call on the writer and its arguments
    result,               \* outcome of the last method call on the writer
    calls                 \* number of method calls made so far

vars == <<args, ret, data_records, local_message_types, next_local_type,
          disk, phase, next_record, data_size, crc, call, result, calls>>

targetVars == <<args, ret>>

writerVars == <<data_records, local_message_types, next_local_type, disk,
                phase, next_record, data_size, crc, call, result, calls>>

None == -999999

----------------------------------------------------------------------------
(* Bounds *)

MaxQ == 8

MaxCalls == 2

MaxSegments == 1

----------------------------------------------------------------------------
(* Python arithmetic *)

Abs(x) == IF x < 0 THEN -x ELSE x

\* variant of int: floor instead of truncation toward zero
int_floor(num, den) == num \div den

\* int(x) for the float x = num/den, den > 0: truncation toward zero
int(num, den) == IF num >= 0 THEN num \div den ELSE -((-num) \div den)

----------------------------------------------------------------------------
(* calculate_ftp_targets *)

Returned(lo, hi) == [kind |-> "ok", low |-> lo, high |-> hi]

Raised(exc) == [kind |-> exc, low |-> 0, high |-> 0]

NotCalled == [kind |-> "none", low |-> 0, high |-> 0]

\* variant of half_range: the range is not halved
half_range_whole(ftp, q) == int(ftp * q, 20)

\* 0.2 * ftp * f / 2 with f = q/4 is ftp*q/40
half_range(ftp, q) == int(ftp * q, 40)

\* the else branch: endpoints computed separately
range_targets(ftp, q_low, q_high) ==
    Returned(int(4000 + ftp * q_low - 4 * half_range(ftp, q_low), 4),
             int(4000 + ftp * q_high + 4 * half_range(ftp, q_high), 4))

\* variant of the if branch: the two endpoints exchanged
single_targets_swapped(ftp, q) ==
    Returned(int(4000 + ftp * q + 4 * half_range(ftp, q), 4),
             int(4000 + ftp * q - 4 * half_range(ftp, q), 4))

\* the if branch: midpoint = 1000 + ftp*f is (4000 + ftp*q)/4
single_targets(ftp, q) ==
    Returned(int(4000 + ftp * q - 4 * half_range(ftp, q), 4),
             int(4000 + ftp * q + 4 * half_range(ftp, q), 4))

\* fit_writer.calculate_ftp_targets; ftp * None and None * fraction raise
\* TypeError in the first product of whichever branch is taken
calculate_ftp_targets(q_low, ftp, q_high) ==
    LET high == IF q_high = None THEN q_low ELSE q_high IN
    IF ftp = None \/ q_low = None THEN Raised("TypeError")
    ELSE IF q_low = high THEN single_targets(ftp, q_low)
    ELSE range_targets(ftp, q_low, high)

\* fit_target_utils.calculate_ftp_targets: the same, after a None check
utils_calculate_ftp_targets(q_low, ftp, q_high) ==
    IF ftp = None THEN Raised("ValueError")
    ELSE calculate_ftp_targets(q_low, ftp, q_high)

Fractions == (-MaxQ)..MaxQ

FtpValues == {None, -280, -1, 0, 1, 7, 250, 280, 600}

ArgSet == [low : Fractions, ftp : FtpValues, high : Fractions \cup {None}]

NoArgs == [low |-> 0, ftp |-> 0, high |-> 0]

NoRet == [fn |-> "none", out |-> NotCalled]

\* a call of fit_writer.calculate_ftp_targets on the drawn arguments
call_calculate_ftp_targets ==
    /\ ret.fn = "none"
    /\ ret' = [fn |-> "fit_writer",
               out |-> calculate_ftp_targets(args.low, args.ftp, args.high)]
    /\ UNCHANGED <<args, writerVars>>

\* a call of fit_target_utils.calculate_ftp_targets on the drawn arguments
call_utils_calculate_ftp_targets ==
    /\ ret.fn = "none"
    /\ ret' = [fn |-> "fit_target_utils",
               out |-> utils_calculate_ftp_targets(args.low, args.ftp, args.high)]
    /\ UNCHANGED <<args, writerVars>>

----------------------------------------------------------------------------
(* Bytes: struct.pack, str.encode, bit operations *)

RECURSIVE BitXor(_, _)
\* a ^ b on non-negative integers
BitXor(a, b) ==
    IF a = 0 THEN b
    ELSE IF b = 0 THEN a
    ELSE ((a + b) % 2) + 2 * BitXor(a \div 2, b \div 2)

RECURSIVE BitOr(_, _)
\* a | b on non-negative integers
BitOr(a, b) ==
    IF a = 0 THEN b
    ELSE IF b = 0 THEN a
    ELSE (IF a % 2 = 1 \/ b % 2 = 1 THEN 1 ELSE 0) + 2 * BitOr(a \div 2, b \div 2)

\* the outcome of one f.write(struct.pack(...)): the bytes, or the exception
Packed(bs) == [exc |-> "", bytes |-> bs]

Failed(e) == [exc |-> e, bytes |-> <<>>]

\* struct.pack("B", v): struct.error outside 0..255
pack_B(v) == IF v >= 0 /\ v <= 255 THEN Packed(<<v>>) ELSE Failed("struct.error")

\* struct.pack("<H", v): little-endian, struct.error outside 0..65535
pack_H(v) ==
    IF v >= 0 /\ v <= 65535 THEN Packed(<<v % 256, v \div 256>>)
    ELSE Failed("struct.error")

\* variant of pack_I_halves: the value is taken modulo 2^32
pack_I_halves_wrapping(high, low) ==
    Packed(<<low % 256, low \div 256, (high % 65536) % 256, (high % 65536) \div 256>>)

\* struct.pack("<I", v) for v = high * 65536 + low with 0 <= low < 65536,
\* the form in which a value of 2^31 or more is carried: little-endian,
\* struct.error outside 0..2^32-1
pack_I_halves(high, low) ==
    IF high >= 0 /\ high <= 65535
    THEN Packed(<<low % 256, low \div 256, high % 256, high \div 256>>)
    ELSE Failed("struct.error")

\* struct.pack("<I", v)
pack_I(v) == pack_I_halves(v \div 65536, v % 65536)

\* the UTF-8 encoding of one code point: 1, 2, 3 or 4 bytes
utf8_char(cp) ==
    IF cp < 128 THEN <<cp>>
    ELSE IF cp < 2048 THEN <<192 + (cp \div 64), 128 + (cp % 64)>>
    ELSE IF cp < 65536
    THEN <<224 + (cp \div 4096), 128 + ((cp \div 64) % 64), 128 + (cp % 64)>>
    ELSE <<240 + (cp \div 262144), 128 + ((cp \div 4096) % 64),
           128 + ((cp \div 64) % 64), 128 + (cp % 64)>>

RECURSIVE encode_utf8(_)
\* str.encode("utf-8") of a string given as its code points
encode_utf8(str) ==
    IF str = <<>> THEN <<>> ELSE utf8_char(Head(str)) \o encode_utf8(Tail(str))

\* b"\x00" * n (empty when n <= 0)
zeros(n) == [i \in 1..n |-> 0]

\* variant of truncate_and_pad: the slice keeps the last 15 bytes
truncate_and_pad_last_15(enc) ==
    LET cut == SubSeq(enc, IF Len(enc) < 15 THEN 1 ELSE Len(enc) - 14, Len(enc))
    IN  cut \o zeros(16 - Len(cut))

\* enc[:15] padded with NUL bytes to 16
truncate_and_pad(enc) ==
    LET cut == SubSeq(enc, 1, IF Len(enc) < 15 THEN Len(enc) ELSE 15)
    IN  cut \o zeros(16 - Len(cut))

\* variant of name_bytes: the first 15 characters are kept, not 15 bytes
name_bytes_by_characters(name) ==
    LET cut == encode_utf8(SubSeq(name, 1, IF Len(name) < 15 THEN Len(name) ELSE 15))
    IN  cut \o zeros(16 - Len(cut))

\* name.encode("utf-8")[:15] padded with NUL bytes to 16
name_bytes(name) == truncate_and_pad(encode_utf8(name))

RECURSIVE digits(_)
\* the decimal digits of n >= 0 as ASCII codes
digits(n) == IF n < 10 THEN <<48 + n>> ELSE digits(n \div 10) \o <<48 + (n % 10)>>

\* f"{f * 100:.0f}" for the fraction f = q/4: q*25 is a whole number
percent(q) == IF q < 0 THEN <<45>> \o digits(-(q * 25)) ELSE digits(q * 25)

----------------------------------------------------------------------------
(* Messages *)

\* a (field_number, field_type, field_value) tuple; a string value is data
Field(num, type, v) == [num |-> num, type |-> type, value |-> v, data |-> <<>>]

StringField(num, bs) == [num |-> num, type |-> "string", value |-> 0, data |-> bs]

Record(global_type, fields) == [global_type |-> global_type, fields |-> fields]

\* the record add_file_id_message appends; now is int(datetime.now().timestamp())
file_id_record(now) ==
    Record(0, <<Field(0, "enum", 4), Field(1, "uint16", 1),
                Field(2, "uint16", 1), Field(3, "uint32", now)>>)

\* the record add_workout_message appends
workout_record(name, num_steps) ==
    Record(26, <<StringField(4, name_bytes(name)), Field(5, "enum", 0),
                 Field(6, "uint16", num_steps)>>)

\* variant of workout_step_record: target_low in both target fields
workout_step_record_low_twice(step_index, step_name, duration_type, duration_value, target_low, target_high, intensity) ==
    Record(27, <<Field(254, "uint16", step_index),
                 StringField(0, name_bytes(step_name)),
                 Field(1, "enum", duration_type),
                 Field(2, "uint32", duration_value),
                 Field(3, "enum", 4),
                 Field(4, "uint32", 0),
                 Field(5, "uint32", target_low),
                 Field(6, "uint32", target_low),
                 Field(7, "enum", intensity)>>)

\* the record add_workout_step appends
workout_step_record(step_index, step_name, duration_type, duration_value, target_low, target_high, intensity) ==
    Record(27, <<Field(254, "uint16", step_index),
                 StringField(0, name_bytes(step_name)),
                 Field(1, "enum", duration_type),
                 Field(2, "uint32", duration_value),
                 Field(3, "enum", 4),
                 Field(4, "uint32", 0),
                 Field(5, "uint32", target_low),
                 Field(6, "uint32", target_high),
                 Field(7, "enum", intensity)>>)

SupportedTypes == {"string", "enum", "uint8", "uint16", "uint32"}

----------------------------------------------------------------------------
(* _write_message_pair, _write_header, _calculate_crc *)

RECURSIVE written(_)
\* a run of f.write(struct.pack(...)) calls: the bytes written up to the
\* first call that raises, and the exception it raised ("" when none does)
written(chunks) ==
    IF chunks = <<>> THEN Packed(<<>>)
    ELSE IF Head(chunks).exc # "" THEN Head(chunks)
    ELSE LET rest == written(Tail(chunks))
         IN  [exc |-> rest.exc, bytes |-> Head(chunks).bytes \o rest.bytes]

\* variant of field_definition: an unknown field type writes no descriptor
field_definition_skipping(field) ==
    <<pack_B(field.num)>> \o
    (CASE field.type = "string" -> <<pack_B(Len(field.data)), pack_B(7)>>
       [] field.type = "enum"   -> <<pack_B(1), pack_B(0)>>
       [] field.type = "uint8"  -> <<pack_B(1), pack_B(2)>>
       [] field.type = "uint16" -> <<pack_B(2), pack_B(132)>>
       [] field.type = "uint32" -> <<pack_B(4), pack_B(134)>>
       [] OTHER                 -> <<>>)

\* one pass of the field definition loop: number, size, base type
field_definition(field) ==
    <<pack_B(field.num)>> \o
    (CASE field.type = "string" -> <<pack_B(Len(field.data)), pack_B(7)>>
       [] field.type = "enum"   -> <<pack_B(1), pack_B(0)>>
       [] field.type = "uint8"  -> <<pack_B(1), pack_B(2)>>
       [] field.type = "uint16" -> <<pack_B(2), pack_B(132)>>
       [] field.type = "uint32" -> <<pack_B(4), pack_B(134)>>
       [] OTHER -> <<Failed("ValueError: Unsupported field type")>>)

\* one pass of the field data loop; a type none of its branches names
\* writes nothing
field_data(field) ==
    CASE field.type = "string" -> <<Packed(field.data)>>
      [] field.type \in {"enum", "uint8"} -> <<pack_B(field.value)>>
      [] field.type = "uint16" -> <<pack_H(field.value)>>
      [] field.type = "uint32" ->
           IF field.data = <<>> THEN <<pack_I(field.value)>>
           ELSE <<pack_I_halves(field.data[1], field.value)>>
      [] OTHER -> <<>>

RECURSIVE field_definitions(_, _)
\* the writes of the field definitions loop for fields[from..]
field_definitions(fields, from) ==
    IF from > Len(fields) THEN <<>>
    ELSE field_definition(fields[from]) \o field_definitions(fields, from + 1)

RECURSIVE field_values(_, _)
\* the writes of the field data loop for fields[from..]
field_values(fields, from) ==
    IF from > Len(fields) THEN <<>>
    ELSE field_data(fields[from]) \o field_values(fields, from + 1)

\* variant of _write_message_pair: every header carries local type 0
_write_message_pair_local_zero(record, local_type) ==
    written(<<pack_B(64), pack_B(0), pack_B(0),
              pack_H(record.global_type), pack_B(Len(record.fields))>>
            \o field_definitions(record.fields, 1)
            \o <<pack_B(0)>>
            \o field_values(record.fields, 1))

\* variant of _write_message_pair: the definition message is left out
_write_message_pair_data_only(record, local_type) ==
    written(<<pack_B(local_type)>> \o field_values(record.fields, 1))

\* the writes of _write_message_pair once the local type is assigned:
\* definition message, then data message
_write_message_pair(record, local_type) ==
    written(<<pack_B(BitOr(64, local_type)), pack_B(0), pack_B(0),
              pack_H(record.global_type), pack_B(Len(record.fields))>>
            \o field_definitions(record.fields, 1)
            \o <<pack_B(local_type)>>
            \o field_values(record.fields, 1))

header_size == 14

\* variant of _write_header: the size field counts the header too
_write_header_total_size(size) ==
    <<14, 32>> \o pack_H(2105).bytes \o pack_I(size + header_size).bytes
        \o <<46, 70, 73, 84>> \o pack_H(0).bytes

\* variant of _write_header: the protocol version byte and the header size
\* byte exchanged
_write_header_swapped(size) ==
    <<32, 14>> \o pack_H(2105).bytes \o pack_I(size).bytes
        \o <<46, 70, 73, 84>> \o pack_H(0).bytes

\* the 14 bytes _write_header writes; 46, 70, 73, 84 is b".FIT"
_write_header(size) ==
    <<14, 32>> \o pack_H(2105).bytes \o pack_I(size).bytes
        \o <<46, 70, 73, 84>> \o pack_H(0).bytes

\* crc_table, 0x0000 0xCC01 0xD801 ... 0x4400, indexed from 1
crc_table ==
    <<0, 52225, 55297, 5120, 61441, 15360, 10240, 58369,
      40961, 27648, 30720, 46081, 20480, 39937, 34817, 17408>>

\* variant of crc_step: the upper nibble is processed before the lower
crc_step_upper_first(c, byte) ==
    LET tmp1 == crc_table[(c % 16) + 1]
        c1   == (c \div 16) % 4096
        c2   == BitXor(BitXor(c1, tmp1), crc_table[((byte \div 16) % 16) + 1])
        tmp2 == crc_table[(c2 % 16) + 1]
        c3   == (c2 \div 16) % 4096
    IN  BitXor(BitXor(c3, tmp2), crc_table[(byte % 16) + 1])

\* variant of crc_step: the second table lookup takes the lower nibble again
crc_step_lower_twice(c, byte) ==
    LET tmp1 == crc_table[(c % 16) + 1]
        c1   == (c \div 16) % 4096
        c2   == BitXor(BitXor(c1, tmp1), crc_table[(byte % 16) + 1])
        tmp2 == crc_table[(c2 % 16) + 1]
        c3   == (c2 \div 16) % 4096
    IN  BitXor(BitXor(c3, tmp2), crc_table[(byte % 16) + 1])

\* the loop body of _calculate_crc for one byte: lower nibble, upper nibble
crc_step(c, byte) ==
    LET tmp1 == crc_table[(c % 16) + 1]
        c1   == (c \div 16) % 4096
        c2   == BitXor(BitXor(c1, tmp1), crc_table[(byte % 16) + 1])
        tmp2 == crc_table[(c2 % 16) + 1]
        c3   == (c2 \div 16) % 4096
    IN  BitXor(BitXor(c3, tmp2), crc_table[((byte \div 16) % 16) + 1])

RECURSIVE crc_loop(_, _, _, _)
\* the for loop of _calculate_crc over data[lo..hi], entered with crc = c;
\* the range is split in halves, and the left half's value is looked at
\* before the right half starts, to keep the evaluation shallow
crc_loop(data, lo, hi, c) ==
    IF lo > hi THEN c
    ELSE IF lo = hi THEN crc_step(c, data[lo])
    ELSE LET mid == (lo + hi) \div 2
             left == crc_loop(data, lo, mid, c)
         IN  IF left >= 0 THEN crc_loop(data, mid + 1, hi, left) ELSE left

\* _calculate_crc(data): crc = 0, the loop, crc & 0xFFFF
_calculate_crc(data) == crc_loop(data, 1, Len(data), 0) % 65536

----------------------------------------------------------------------------
(* The writer, its output file and the calls made on it *)

NoFile == [exists |-> FALSE, bytes |-> <<>>]

\* a file left at output_path by something else: b"old"
StaleFile == [exists |-> TRUE, bytes |-> <<111, 108, 100>>]

Call(method, segments, name, ftp, now) ==
    [method |-> method, segments |-> segments, name |-> name,
     ftp |-> ftp, now |-> now]

SimpleCall(method) == Call(method, <<>>, <<>>, 0, 0)

\* kind: "pending" while the call runs, "None" or "crc" for a return,
\* otherwise the exception type; cause: what an IOError wraps; opened:
\* whether open(output_path, "wb") had succeeded
Outcome(kind, value, cause, opened) ==
    [kind |-> kind, value |-> value, cause |-> cause, opened |-> opened]

ReturnedNone == Outcome("None", 0, "", FALSE)

Pending == Outcome("pending", 0, "", FALSE)

EmptyTable == [g \in {} |-> 0]

\* a writer just constructed, and the file d at output_path
WriterStart(d) ==
    /\ data_records = <<>>
    /\ local_message_types = EmptyTable
    /\ next_local_type = 0
    /\ disk = d
    /\ phase = "Idle"
    /\ next_record = 0
    /\ data_size = None
    /\ crc = None
    /\ call = SimpleCall("none")
    /\ result = Outcome("none", 0, "", FALSE)
    /\ calls = 0

CanCall == phase = "Idle" /\ calls < MaxCalls

fileVars == <<disk, phase, next_record, data_size, crc>>

tableVars == <<local_message_types, next_local_type>>

\* _add_message, as the body of a public add_ method that returns None
_add_message(method, now, record) ==
    /\ CanCall
    /\ data_records' = Append(data_records, record)
    /\ call' = Call(method, <<>>, <<>>, 0, now)
    /\ result' = ReturnedNone
    /\ calls' = calls + 1
    /\ UNCHANGED <<tableVars, fileVars, targetVars>>

TimeValues == {1793570400, 1793570465}

\* "Test" and "Tempo ride café" (16 bytes of UTF-8)
Names == {<<84, 101, 115, 116>>,
          <<84, 101, 109, 112, 111, 32, 114, 105, 100, 101, 32, 99, 97, 102, 233>>}

add_file_id_message ==
    \E now \in TimeValues :
        _add_message("add_file_id_message", now, file_id_record(now))

add_workout_message ==
    \E name \in Names :
        _add_message("add_workout_message", 0, workout_record(name, 1))

\* add_workout_step(0, "Step", 0, 1000, 100, 200, 0)
add_workout_step ==
    _add_message("add_workout_step", 0,
                 workout_step_record(0, <<83, 116, 101, 112>>, 0, 1000, 100, 200, 0))

\* records a caller hands to _add_message directly: an unknown field type;
\* an unknown field type after a value that does not fit its type; a value
\* that does not fit its type
RawRecords ==
    {Record(999, <<Field(0, "unsupported_type", 123)>>),
     Record(20, <<Field(0, "uint16", 70000), Field(1, "sint32", 5)>>),
     Record(20, <<Field(0, "uint8", 7), Field(1, "uint16", 70000)>>)}

add_raw_message ==
    \E record \in RawRecords : _add_message("_add_message", 0, record)

\* variant of clear: the local type table is kept
clear_keeps_table ==
    /\ CanCall
    /\ data_records' = <<>>
    /\ call' = SimpleCall("clear")
    /\ result' = ReturnedNone
    /\ calls' = calls + 1
    /\ UNCHANGED <<tableVars, fileVars, targetVars>>

\* clear()
clear ==
    /\ CanCall
    /\ data_records' = <<>>
    /\ local_message_types' = EmptyTable
    /\ next_local_type' = 0
    /\ call' = SimpleCall("clear")
    /\ result' = ReturnedNone
    /\ calls' = calls + 1
    /\ UNCHANGED <<fileVars, targetVars>>

----------------------------------------------------------------------------
(* write_fit_file *)

\* the file holding new at offset 0 over what it held there before
overwrite(bytes, new) ==
    new \o SubSeq(bytes, Len(new) + 1, Len(bytes))

\* a failed flush leaves a strict prefix of the n bytes on the disk; the
\* prefix lengths drawn are the ends and the two sides of the header boundary
CutPoints(n) == {k \in {0, header_size - 1, header_size, n - 1} : k >= 0 /\ k < n}

IOError(cause, opened) == Outcome("IOError", 0, cause, opened)

\* variant of begin_write: the file is opened before the queue is looked at
begin_write_open_first(queue) ==
    /\ data_size' = None
    /\ crc' = None
    /\ next_record' = 0
    /\ disk' = [exists |-> TRUE, bytes |-> <<>>]
    /\ IF queue = <<>>
       THEN phase' = "Idle" /\ result' = Outcome("ValueError", 0, "", FALSE)
       ELSE phase' = "Empty" /\ result' = Pending

\* write_fit_file up to open(output_path, "wb"): ValueError on an empty
\* queue, outside the try; else the open, which creates or truncates the
\* file, or fails and leaves the path as it was
begin_write(queue) ==
    /\ data_size' = None
    /\ crc' = None
    /\ next_record' = 0
    /\ IF queue = <<>>
       THEN /\ phase' = "Idle"
            /\ result' = Outcome("ValueError", 0, "", FALSE)
            /\ disk' = disk
       ELSE \/ /\ phase' = "Empty"
               /\ result' = Pending
               /\ disk' = [exists |-> TRUE, bytes |-> <<>>]
            \/ /\ phase' = "Idle"
               /\ result' = IOError("io", FALSE)
               /\ disk' = disk

\* a call of write_fit_file on the writer as it stands
write_fit_file ==
    /\ CanCall
    /\ call' = SimpleCall("write_fit_file")
    /\ calls' = calls + 1
    /\ begin_write(data_records)
    /\ UNCHANGED <<data_records, tableVars, targetVars>>

\* f.write(b"\x00" * header_size); data_start_pos = f.tell()
reserve_header ==
    /\ phase = "Empty"
    /\ disk' = [disk EXCEPT !.bytes = zeros(header_size)]
    /\ phase' = "HeaderReserved"
    /\ next_record' = 1
    /\ UNCHANGED <<data_records, tableVars, data_size, crc, call, result,
                   calls, targetVars>>

\* one pass of the loop over data_records: the local type is assigned, then
\* the pair is written.  An exception leaves the with block, which closes
\* the file with what was written so far, and is raised again as IOError.
\* After the last record: data_end_pos = f.tell(), data_size
write_record ==
    /\ phase = "HeaderReserved"
    /\ next_record <= Len(data_records)
    /\ LET record == data_records[next_record]
           known == record.global_type \in DOMAIN local_message_types
           table == IF known THEN local_message_types
                    ELSE [g \in DOMAIN local_message_types \cup {record.global_type} |->
                            IF g = record.global_type THEN next_local_type
                            ELSE local_message_types[g]]
           w == _write_message_pair(record, table[record.global_type])
           bytes == disk.bytes \o w.bytes
       IN  /\ local_message_types' = table
           /\ next_local_type' = IF known THEN next_local_type ELSE next_local_type + 1
           /\ disk' = [disk EXCEPT !.bytes = bytes]
           /\ IF w.exc # ""
              THEN /\ phase' = "Idle"
                   /\ result' = IOError(w.exc, TRUE)
                   /\ UNCHANGED <<next_record, data_size>>
              ELSE /\ next_record' = next_record + 1
                   /\ result' = result
                   /\ IF next_record = Len(data_records)
                      THEN /\ phase' = "MessagesWritten"
                           /\ data_size' = Len(bytes) - header_size
                      ELSE /\ phase' = "HeaderReserved"
                           /\ data_size' = data_size
    /\ UNCHANGED <<data_records, crc, call, calls, targetVars>>

\* variant of finalize_header: no real header is written before the file is
\* read back
finalize_header_skipped ==
    /\ phase = "MessagesWritten"
    /\ phase' = "HeaderFinalized"
    /\ UNCHANGED <<data_records, tableVars, disk, next_record, data_size, crc,
                   call, result, calls, targetVars>>

\* f.seek(0); self._write_header(f, data_size); the with block closes f
finalize_header ==
    /\ phase = "MessagesWritten"
    /\ disk' = [disk EXCEPT !.bytes = overwrite(disk.bytes, _write_header(data_size))]
    /\ phase' = "HeaderFinalized"
    /\ UNCHANGED <<data_records, tableVars, next_record, data_size, crc,
                   call, result, calls, targetVars>>

\* variant of read_back: the checksum covers the messages only
read_back_body_only ==
    /\ phase = "HeaderFinalized"
    /\ crc = None
    /\ crc' = _calculate_crc(SubSeq(disk.bytes, header_size + 1, Len(disk.bytes)))
    /\ UNCHANGED <<data_records, tableVars, disk, phase, next_record,
                   data_size, call, result, calls, targetVars>>

\* file_data = f.read(); crc = self._calculate_crc(file_data)
read_back ==
    /\ phase = "HeaderFinalized"
    /\ crc = None
    /\ crc' = _calculate_crc(disk.bytes)
    /\ UNCHANGED <<data_records, tableVars, disk, phase, next_record,
                   data_size, call, result, calls, targetVars>>

\* variant of append_crc: the checksum is packed big-endian
append_crc_big_endian ==
    /\ phase = "HeaderFinalized"
    /\ crc # None
    /\ disk' = [disk EXCEPT !.bytes = disk.bytes \o <<crc \div 256, crc % 256>>]
    /\ phase' = "ChecksumAppended"
    /\ UNCHANGED <<data_records, tableVars, next_record, data_size, crc,
                   call, result, calls, targetVars>>

\* with open(output_path, "ab") as f: f.write(struct.pack("<H", crc))
append_crc ==
    /\ phase = "HeaderFinalized"
    /\ crc # None
    /\ disk' = [disk EXCEPT !.bytes = disk.bytes \o pack_H(crc).bytes]
    /\ phase' = "ChecksumAppended"
    /\ UNCHANGED <<data_records, tableVars, next_record, data_size, crc,
                   call, result, calls, targetVars>>

\* variant of return_crc: something after the append raises (the print that
\* zwift2fit.py's write_fit_file has there, say)
return_crc_raising ==
    /\ phase = "ChecksumAppended"
    /\ phase' = "Idle"
    /\ result' = IOError("io", TRUE)
    /\ UNCHANGED <<data_records, tableVars, disk, next_record, data_size,
                   crc, call, calls, targetVars>>

\* return crc
return_crc ==
    /\ phase = "ChecksumAppended"
    /\ phase' = "Idle"
    /\ result' = Outcome("crc", crc, "", TRUE)
    /\ UNCHANGED <<data_records, tableVars, disk, next_record, data_size,
                   crc, call, calls, targetVars>>

\* f.write only fills the buffer of f; the buffer reaches the disk when
\* f.seek(0) flushes it.  An I/O error there leaves a strict prefix of the
\* placeholder and the messages on the disk
fail_write ==
    /\ phase = "MessagesWritten"
    /\ \E k \in CutPoints(Len(disk.bytes)) :
         disk' = [disk EXCEPT !.bytes = SubSeq(disk.bytes, 1, k)]
    /\ phase' = "Idle"
    /\ result' = IOError("io", TRUE)
    /\ UNCHANGED <<data_records, tableVars, next_record, data_size, crc,
                   call, calls, targetVars>>

\* the prefix lengths drawn for a header torn by an I/O error: the ends of
\* its fields (size and version, profile, data size, ".FIT") and one byte
\* short of the whole
HeaderCuts == {0, 2, 4, 8, 12, header_size - 1}

\* an I/O error while the real header is written back: a strict prefix of
\* its bytes has replaced the placeholder
fail_header ==
    /\ phase = "MessagesWritten"
    /\ \E k \in HeaderCuts :
         disk' = [disk EXCEPT !.bytes =
                    overwrite(disk.bytes, SubSeq(_write_header(data_size), 1, k))]
    /\ phase' = "Idle"
    /\ result' = IOError("io", TRUE)
    /\ UNCHANGED <<data_records, tableVars, next_record, data_size, crc,
                   call, calls, targetVars>>

\* an I/O error in open(output_path, "rb") or f.read(): the file stays
fail_read ==
    /\ phase = "HeaderFinalized"
    /\ crc = None
    /\ phase' = "Idle"
    /\ result' = IOError("io", TRUE)
    /\ UNCHANGED <<data_records, tableVars, disk, next_record, data_size,
                   crc, call, calls, targetVars>>

\* an I/O error in open(output_path, "ab") or while the two checksum bytes
\* are written: none or one of them is appended
fail_append ==
    /\ phase = "HeaderFinalized"
    /\ crc # None
    /\ \E k \in 0..1 :
         disk' = [disk EXCEPT !.bytes = disk.bytes \o SubSeq(pack_H(crc).bytes, 1, k)]
    /\ phase' = "Idle"
    /\ result' = IOError("io", TRUE)
    /\ UNCHANGED <<data_records, tableVars, next_record, data_size, crc,
                   call, calls, targetVars>>

----------------------------------------------------------------------------
(* create_workout_file *)

\* WorkoutSegment(type, duration, power, power_start, power_end)
Segment(type, duration, power, power_start, power_end) ==
    [type |-> type, duration |-> duration, power |-> power,
     power_start |-> power_start, power_end |-> power_end]

RangeKinds == {"warmup", "cooldown"}

SingleKinds == {"steady", "interval_work", "interval_rest"}

\* variant of segment_targets: the default branch takes the segment's power
segment_targets_by_power(segment, ftp) ==
    IF segment.type \in RangeKinds
    THEN calculate_ftp_targets(segment.power_start, ftp, segment.power_end)
    ELSE calculate_ftp_targets(segment.power, ftp, None)

\* the targets the branch of the segment's type asks for
segment_targets(segment, ftp) ==
    IF segment.type \in RangeKinds
    THEN calculate_ftp_targets(segment.power_start, ftp, segment.power_end)
    ELSE IF segment.type \in SingleKinds
    THEN calculate_ftp_targets(segment.power, ftp, None)
    ELSE calculate_ftp_targets(2, ftp, None)

\* variant of segment_intensity: rest intervals are marked active
segment_intensity_rest_active(segment) ==
    CASE segment.type = "warmup" -> 2
      [] segment.type = "cooldown" -> 3
      [] OTHER -> 0

\* the intensity the branch of the segment's type sets
segment_intensity(segment) ==
    CASE segment.type = "warmup" -> 2
      [] segment.type = "cooldown" -> 3
      [] segment.type = "interval_rest" -> 1
      [] OTHER -> 0

\* whether the f-string of the branch multiplies None by 100
name_raises(segment) ==
    IF segment.type \in RangeKinds
    THEN segment.power_start = None \/ segment.power_end = None
    ELSE segment.type \in SingleKinds /\ segment.power = None

\* the step_name f-string of the branch; i is the index enumerate gives
segment_name(segment, i) ==
    CASE segment.type = "warmup" ->
           <<87, 97, 114, 109, 117, 112, 32>> \o percent(segment.power_start)
               \o <<45>> \o percent(segment.power_end) \o <<37>>
      [] segment.type = "cooldown" ->
           <<67, 111, 111, 108, 100, 111, 119, 110, 32>> \o percent(segment.power_start)
               \o <<45>> \o percent(segment.power_end) \o <<37>>
      [] segment.type = "steady" ->
           <<83, 116, 101, 97, 100, 121, 32>> \o percent(segment.power) \o <<37>>
      [] segment.type = "interval_work" ->
           <<87, 111, 114, 107, 32>> \o percent(segment.power) \o <<37>>
      [] segment.type = "interval_rest" ->
           <<82, 101, 115, 116, 32>> \o percent(segment.power) \o <<37>>
      [] OTHER -> <<83, 116, 101, 112, 32>> \o digits(i + 1)

\* segment.duration * 1000 as a uint32 field value: the number itself
\* below 2^31, else its low 16 bits as value and the rest as data
duration_value(duration) ==
    LET low == (duration % 65536) * 1000
        high == (duration \div 65536) * 1000 + low \div 65536
    IN  IF high < 32768 THEN [value |-> duration * 1000, data |-> <<>>]
        ELSE [value |-> low % 65536, data |-> <<high>>]

\* add_workout_step for a segment; duration_value is fields[4] of the record
step_of_segment(i, segment, targets) ==
    LET ms == duration_value(segment.duration)
        record == workout_step_record(i, segment_name(segment, i), 0, ms.value,
                                      targets.low, targets.high,
                                      segment_intensity(segment))
    IN  [record EXCEPT !.fields[4].data = ms.data]

RECURSIVE build_steps(_, _, _)
\* the loop over enumerate(segments) from index i on: the records its
\* add_workout_step calls append, up to the first segment whose branch raises
build_steps(segments, ftp, i) ==
    IF i >= Len(segments) THEN [exc |-> "", records |-> <<>>]
    ELSE LET segment == segments[i + 1]
             targets == segment_targets(segment, ftp)
         IN  IF targets.kind # "ok" THEN [exc |-> targets.kind, records |-> <<>>]
             ELSE IF name_raises(segment) THEN [exc |-> "TypeError", records |-> <<>>]
             ELSE LET rest == build_steps(segments, ftp, i + 1)
                  IN  [exc |-> rest.exc,
                       records |->
                         <<step_of_segment(i, segment, targets)>>
                         \o rest.records]

\* variant of create_workout_file_call: the writer is not cleared first
create_workout_file_call_no_clear(segments, name, ftp, now) ==
    /\ CanCall
    /\ call' = Call("create_workout_file", segments, name, ftp, now)
    /\ calls' = calls + 1
    /\ IF segments = <<>>
       THEN /\ result' = Outcome("ValueError", 0, "", FALSE)
            /\ UNCHANGED <<data_records, tableVars, fileVars>>
       ELSE LET built == build_steps(segments, ftp, 0)
                queue == data_records
                           \o <<file_id_record(now), workout_record(name, Len(segments))>>
                           \o built.records
            IN  /\ data_records' = queue
                /\ UNCHANGED tableVars
                /\ IF built.exc # ""
                   THEN /\ result' = Outcome(built.exc, 0, "", FALSE)
                        /\ UNCHANGED fileVars
                   ELSE begin_write(queue)
    /\ UNCHANGED targetVars

\* create_workout_file(segments, output_path, name, ftp), up to the open
\* inside write_fit_file; now is the clock add_file_id_message reads
create_workout_file_call(segments, name, ftp, now) ==
    /\ CanCall
    /\ call' = Call("create_workout_file", segments, name, ftp, now)
    /\ calls' = calls + 1
    /\ IF segments = <<>>
       THEN /\ result' = Outcome("ValueError", 0, "", FALSE)
            /\ UNCHANGED <<data_records, tableVars, fileVars>>
       ELSE LET built == build_steps(segments, ftp, 0)
                queue == <<file_id_record(now), workout_record(name, Len(segments))>>
                           \o built.records
            IN  /\ data_records' = queue
                /\ local_message_types' = EmptyTable
                /\ next_local_type' = 0
                /\ IF built.exc # ""
                   THEN /\ result' = Outcome(built.exc, 0, "", FALSE)
                        /\ UNCHANGED fileVars
                   ELSE begin_write(queue)
    /\ UNCHANGED targetVars

\* warmup 300 s 50-75%, steady 60 s without a power
SegmentSet ==
    {Segment("warmup", 300, None, 2, 3),
     Segment("steady", 60, None, None, None)}

RECURSIVE SeqsUpTo(_, _)
\* the sequences over S of length at most n
SeqsUpTo(S, n) ==
    IF n = 0 THEN {<<>>}
    ELSE LET shorter == SeqsUpTo(S, n - 1)
         IN  shorter \cup {Append(q, x) : q \in shorter, x \in S}

create_workout_file ==
    \E segments \in SeqsUpTo(SegmentSet, MaxSegments), name \in Names,
       now \in TimeValues :
        create_workout_file_call(segments, name, 250, now)

----------------------------------------------------------------------------
(* A whole encode on a writer just constructed, as a function of its inputs *)

RECURSIVE pairs_from(_, _, _, _)
\* the loop of write_fit_file over the records i, i + 1, ... of the queue,
\* with the local type table and counter it has reached
pairs_from(queue, i, table, next) ==
    IF i > Len(queue) THEN Packed(<<>>)
    ELSE LET record == queue[i]
             known == record.global_type \in DOMAIN table
             local_type == IF known THEN table[record.global_type] ELSE next
             assigned == [g \in DOMAIN table \cup {record.global_type} |->
                            IF g = record.global_type THEN local_type ELSE table[g]]
             w == _write_message_pair(record, local_type)
         IN  IF w.exc # "" THEN w
             ELSE LET rest == pairs_from(queue, i + 1, assigned,
                                         IF known THEN next ELSE next + 1)
                  IN  [exc |-> rest.exc, bytes |-> w.bytes \o rest.bytes]

\* the file write_fit_file leaves when nothing fails: the header with the
\* size of the messages, the messages, the checksum of both
fit_file(queue) ==
    LET body == pairs_from(queue, 1, EmptyTable, 0).bytes
        head == _write_header(Len(body))
    IN  head \o body \o pack_H(_calculate_crc(head \o body)).bytes

\* the queue create_workout_file builds after its clear()
fresh_queue(segments, name, ftp, now) ==
    <<file_id_record(now), workout_record(name, Len(segments))>>
        \o build_steps(segments, ftp, 0).records

----------------------------------------------------------------------------
(* Specifications *)

Init ==
    /\ \E d \in {NoFile, StaleFile} : WriterStart(d)
    /\ args = NoArgs
    /\ ret = NoRet

Next ==
    \/ add_file_id_message
    \/ add_workout_message
    \/ add_workout_step
    \/ add_raw_message
    \/ clear
    \/ write_fit_file
    \/ create_workout_file
    \/ reserve_header
    \/ write_record
    \/ finalize_header
    \/ read_back
    \/ append_crc
    \/ return_crc
    \/ fail_write
    \/ fail_header
    \/ fail_read
    \/ fail_append

Spec == Init /\ [][Next]_vars

TargetInit ==
    /\ \E d \in {NoFile, StaleFile} : WriterStart(d)
    /\ args \in ArgSet
    /\ ret = NoRet

TargetNext ==
    \/ call_calculate_ftp_targets
    \/ call_utils_calculate_ftp_targets

SpecTargets == TargetInit /\ [][TargetNext]_vars

\* the longest queue the add_ calls of SpecQueue build
MaxQueue == 3

\* what add_file_id_message, add_workout_message("Test", 1) and
\* add_workout_step(0, "Step", 0, 1000, 100, 200, 0) append
QueueRecords ==
    {file_id_record(1793570400),
     workout_record(<<84, 101, 115, 116>>, 1),
     workout_step_record(0, <<83, 116, 101, 112>>, 0, 1000, 100, 200, 0)}

\* an add_ call, bounded by the length of the queue instead of the number
\* of calls
queue_message ==
    /\ phase = "Idle"
    /\ Len(data_records) < MaxQueue
    /\ \E record \in QueueRecords : data_records' = Append(data_records, record)
    /\ call' = SimpleCall("_add_message")
    /\ result' = ReturnedNone
    /\ UNCHANGED <<calls, tableVars, fileVars, targetVars>>

QueueInit ==
    /\ WriterStart(NoFile)
    /\ args = NoArgs
    /\ ret = NoRet

QueueNext ==
    \/ queue_message
    \/ write_fit_file
    \/ reserve_header
    \/ write_record
    \/ finalize_header
    \/ read_back
    \/ append_crc
    \/ return_crc

\* one writer, messages added in any order, written more than once
SpecQueue == QueueInit /\ [][QueueNext]_vars

\* the longest segment list create_workout_file gets in SpecWorkouts
MaxSteps == 2

\* segments as the parser builds them for Warmup, Cooldown, SteadyState and
\* IntervalsT, a warmup whose two powers are equal, and two segments of a
\* type create_workout_file has no branch for, without and with powers
WorkoutSegments ==
    {Segment("warmup", 300, None, 2, 3),
     Segment("warmup", 90, None, 2, 2),
     Segment("cooldown", 240, None, 3, 1),
     Segment("steady", 600, 3, None, None),
     Segment("interval_work", 30, 5, None, None),
     Segment("interval_rest", 45, 2, None, None),
     Segment("freeride", 120, None, None, None),
     Segment("ramp", 60, 4, 1, 6)}

WorkoutFtps == {250, 280}

\* create_workout_file(segments, path, "Test", ftp) on a new writer
create_workout ==
    /\ calls = 0
    /\ \E segments \in SeqsUpTo(WorkoutSegments, MaxSteps), ftp \in WorkoutFtps :
           create_workout_file_call(segments, <<84, 101, 115, 116>>, ftp, 1793570400)

WorkoutInit ==
    /\ WriterStart(NoFile)
    /\ args = NoArgs
    /\ ret = NoRet

WorkoutNext ==
    \/ create_workout
    \/ reserve_header
    \/ write_record
    \/ finalize_header
    \/ read_back
    \/ append_crc
    \/ return_crc

\* one create_workout_file call over every kind of segment
SpecWorkouts == WorkoutInit /\ [][WorkoutNext]_vars

\* the most letters in front of the last characters of a name
MaxNameLen == 17

\* the ends of the names: nothing, "é", "€", an emoji, "éB"
NameEnds == {<<>>, <<233>>, <<8364>>, <<128512>>, <<233, 66>>}

\* names of 0..MaxNameLen letters "A" and one of the ends
NameInputs ==
    {[i \in 1..n |-> 65] \o end : n \in 0..MaxNameLen, end \in NameEnds}

\* add_workout_message(name, 1) with the name drawn at the start
add_named_workout == _add_message("add_workout_message", 0, workout_record(args, 1))

\* add_workout_step(0, name, 0, 1000, 100, 200, 0) with that name
add_named_step ==
    _add_message("add_workout_step", 0,
                 workout_step_record(0, args, 0, 1000, 100, 200, 0))

NameInit ==
    /\ WriterStart(NoFile)
    /\ args \in NameInputs
    /\ ret = NoRet

NameNext ==
    \/ add_named_workout
    \/ add_named_step

\* the names that add_workout_message and add_workout_step encode
SpecNames == NameInit /\ [][NameNext]_vars

\* the longest data _calculate_crc gets in SpecCrc
MaxCrcLen == 3

\* the bytes the data is made of: 0x00 and 0xA5
CrcBytes == {0, 165}

\* data, and a second data that differs from it in the byte at position
\* at (from 1), which is any other byte; at = 0 for the empty data
CrcInputs ==
    {[data |-> <<>>, at |-> 0, byte |-> 0]}
        \cup UNION {[data : {d}, at : 1..Len(d), byte : 0..255] :
                      d \in SeqsUpTo(CrcBytes, MaxCrcLen) \ {<<>>}}

\* args.data with the byte at args.at replaced
changed_data == [args.data EXCEPT ![args.at] = args.byte]

NoCrc == [fn |-> "none", first |-> None, second |-> None]

\* crc1 = writer._calculate_crc(data)
call_calculate_crc ==
    /\ ret = NoCrc
    /\ ret' = [fn |-> "first", first |-> _calculate_crc(args.data), second |-> None]
    /\ UNCHANGED <<args, writerVars>>

\* crc2 = writer._calculate_crc(other data of the same length)
call_calculate_crc_again ==
    /\ ret.fn = "first"
    /\ args.at > 0
    /\ args.byte # args.data[args.at]
    /\ ret' = [ret EXCEPT !.fn = "second", !.second = _calculate_crc(changed_data)]
    /\ UNCHANGED <<args, writerVars>>

CrcInit ==
    /\ WriterStart(NoFile)
    /\ args \in CrcInputs
    /\ ret = NoCrc

CrcNext ==
    \/ call_calculate_crc
    \/ call_calculate_crc_again

\* _calculate_crc on data and on data changed in one byte
SpecCrc == CrcInit /\ [][CrcNext]_vars

\* element.get(name, default), with None for an attribute that is absent
get(value, default) == IF value = None THEN default ELSE value

\* variant of rest_follows: a rest interval follows every work interval
rest_follows_always(i, repeat, off_duration) == TRUE

\* i < repeat - 1 or off_duration > 0
rest_follows(i, repeat, off_duration) == i < repeat - 1 \/ off_duration > 0

RECURSIVE intervals_from(_, _, _, _, _, _)
\* the passes i, i + 1, ... of the loop for i in range(repeat)
intervals_from(i, repeat, on_duration, off_duration, on_power, off_power) ==
    IF i >= repeat THEN <<>>
    ELSE <<Segment("interval_work", on_duration, on_power, None, None)>>
           \o (IF rest_follows(i, repeat, off_duration)
               THEN <<Segment("interval_rest", off_duration, off_power, None, None)>>
               ELSE <<>>)
           \o intervals_from(i + 1, repeat, on_duration, off_duration,
                             on_power, off_power)

\* _parse_intervals_t(element); the powers are only carried, and are
\* written in hundredths here, so that the defaults 0.9 and 0.5 are 90, 50
_parse_intervals_t(element) ==
    intervals_from(0, get(element.Repeat, 1), get(element.OnDuration, 60),
                   get(element.OffDuration, 60), get(element.OnPower, 90),
                   get(element.OffPower, 50))

\* the largest Repeat of an IntervalsT element
MaxRepeat == 3

\* IntervalsT elements: every attribute absent or one of a few values
Elements ==
    [Repeat : {None} \cup (-1..MaxRepeat),
     OnDuration : {None, 30, 120},
     OffDuration : {None, -5, 0, 60},
     OnPower : {None, 100, 120},
     OffPower : {None, 40}]

call_parse_intervals_t ==
    /\ ret = NoRet
    /\ ret' = [fn |-> "_parse_intervals_t", out |-> _parse_intervals_t(args)]
    /\ UNCHANGED <<args, writerVars>>

ParserInit ==
    /\ WriterStart(NoFile)
    /\ args \in Elements
    /\ ret = NoRet

ParserNext == call_parse_intervals_t

\* _parse_intervals_t on one element
SpecParser == ParserInit /\ [][ParserNext]_vars

\* what a call leaves: how it ended and the file at output_path
Result(kind, file) == [kind |-> kind, file |-> file]

WrittenFile(bytes) == [exists |-> TRUE, bytes |-> bytes]

\* create_workout_file on a writer just constructed, no file at output_path
\* and no I/O error; objects: the segments are WorkoutSegment objects, as
\* parse_zwo_to_workout gives them, and not dicts, as parse_zwo_file does
create_workout_file_fresh(segments, objects, name, ftp, now) ==
    IF segments = <<>> THEN Result("ValueError", NoFile)
    ELSE IF ~objects THEN Result("AttributeError", NoFile)
    ELSE LET built == build_steps(segments, ftp, 0)
             queue == fresh_queue(segments, name, ftp, now)
             body == pairs_from(queue, 1, EmptyTable, 0)
         IN  IF built.exc # "" THEN Result(built.exc, NoFile)
             ELSE IF body.exc # ""
             THEN Result("IOError", WrittenFile(zeros(header_size) \o body.bytes))
             ELSE Result("crc", WrittenFile(fit_file(queue)))

\* zwift2fit.create_fit_file: target_low, target_high of a segment
create_fit_file_targets(segment, ftp) ==
    IF segment.type \in RangeKinds
    THEN IF segment.power_start = None \/ segment.power_end = None
         THEN Raised("TypeError")
         ELSE Returned(int(ftp * segment.power_start, 4),
                       int(ftp * segment.power_end, 4))
    ELSE IF segment.type \in SingleKinds
    THEN IF segment.power = None THEN Raised("TypeError")
         ELSE Returned(int(ftp * segment.power, 4), int(ftp * segment.power, 4))
    ELSE Returned(int(ftp * 2, 4), int(ftp * 2, 4))

RECURSIVE create_fit_file_steps(_, _, _)
\* zwift2fit.create_fit_file: the loop over enumerate(segments) from i on
create_fit_file_steps(segments, ftp, i) ==
    IF i >= Len(segments) THEN [exc |-> "", records |-> <<>>]
    ELSE LET segment == segments[i + 1]
             targets == create_fit_file_targets(segment, ftp)
         IN  IF targets.kind # "ok" THEN [exc |-> targets.kind, records |-> <<>>]
             ELSE LET rest == create_fit_file_steps(segments, ftp, i + 1)
                  IN  [exc |-> rest.exc,
                       records |->
                         <<step_of_segment(i, segment, targets)>>
                         \o rest.records]

\* zwift2fit.create_fit_file with no file at output_path and no I/O error:
\* nothing to do without segments; segment["duration"] raises TypeError on
\* an object; the writer of zwift2fit.py encodes as the one of fit_writer.py
create_fit_file(segments, objects, name, ftp, now) ==
    IF segments = <<>> THEN Result("None", NoFile)
    ELSE IF objects THEN Result("TypeError", NoFile)
    ELSE LET built == create_fit_file_steps(segments, ftp, 0)
             queue == <<file_id_record(now), workout_record(name, Len(segments))>>
                        \o built.records
             body == pairs_from(queue, 1, EmptyTable, 0)
         IN  IF built.exc # "" THEN Result(built.exc, NoFile)
             ELSE IF body.exc # ""
             THEN Result(body.exc, WrittenFile(zeros(header_size) \o body.bytes))
             ELSE Result("None", WrittenFile(fit_file(queue)))

\* zwift2fit.convert_zwo_to_fit once parse_zwo_file has given the segments
\* (dicts) and the name: True unless create_fit_file raised
convert_zwo_to_fit(segments, name, ftp, now) ==
    LET made == create_fit_file(segments, FALSE, name, ftp, now)
    IN  Result(IF made.kind = "None" THEN "True" ELSE "False", made.file)

\* the longest segment list create_workout_file gets in SpecLimits
MaxLimitSteps == 2

\* the longest queue the add_ calls of SpecLimits build
MaxLimitQueue == 2

\* steady at 50% for 600 s, for 2147484 s (2^31 ms and more), for 4294967 s
\* (the last duration whose milliseconds fit in 32 bits) and for 4294968 s;
\* steady at -200% for 600 s
LimitSegments ==
    {Segment("steady", 600, 2, None, None),
     Segment("steady", 2147484, 2, None, None),
     Segment("steady", 4294967, 2, None, None),
     Segment("steady", 4294968, 2, None, None),
     Segment("steady", 600, -8, None, None)}

\* at 250 the targets of -200% are positive, at 600 negative
LimitFtps == {250, 600}

\* add_workout_message("Test", n) and add_workout_step(i, "Step", 0, 1000,
\* low, 200, 0) at and past the ends of their ranges
LimitRecords ==
    {workout_record(<<84, 101, 115, 116>>, n) : n \in {65535, 65536}}
      \cup {workout_step_record(i, <<83, 116, 101, 112>>, 0, 1000, low, 200, 0) :
               i \in {65535, 65536}, low \in {-1, 0}}

add_limit_message ==
    /\ phase = "Idle"
    /\ Len(data_records) < MaxLimitQueue
    /\ \E record \in LimitRecords : data_records' = Append(data_records, record)
    /\ call' = SimpleCall("_add_message")
    /\ result' = ReturnedNone
    /\ UNCHANGED <<calls, tableVars, fileVars, targetVars>>

create_limit_workout ==
    /\ calls = 0
    /\ \E segments \in SeqsUpTo(LimitSegments, MaxLimitSteps), ftp \in LimitFtps :
           create_workout_file_call(segments, <<84, 101, 115, 116>>, ftp, 1793570400)

LimitInit ==
    /\ WriterStart(NoFile)
    /\ args = NoArgs
    /\ ret = NoRet

LimitNext ==
    \/ add_limit_message
    \/ create_limit_workout
    \/ write_fit_file
    \/ reserve_header
    \/ write_record
    \/ finalize_header
    \/ read_back
    \/ append_crc
    \/ return_crc

\* values at the ends of the ranges of uint16 and uint32
SpecLimits == LimitInit /\ [][LimitNext]_vars

Threads == {1, 2}

\* thread 1 encodes "A", thread 2 encodes "B"
ThreadNames == <<<<65>>, <<66>>>>

\* the records the create_workout_file call of thread t appends, for one
\* steady segment of 600 s at 50% and FTP 250
thread_queue(t) ==
    fresh_queue(<<Segment("steady", 600, 2, None, None)>>, ThreadNames[t],
                250, 1793570400)

RECURSIVE local_types_from(_, _, _, _)
\* the local types the loop of write_fit_file gives the records i, i + 1,
\* ... of the queue when no other thread touches the writer
local_types_from(queue, i, table, next) ==
    IF i > Len(queue) THEN <<>>
    ELSE LET g == queue[i].global_type
             known == g \in DOMAIN table
             local_type == IF known THEN table[g] ELSE next
         IN  <<local_type>>
               \o local_types_from(queue, i + 1,
                    [h \in DOMAIN table \cup {g} |-> IF h = g THEN local_type ELSE table[h]],
                    IF known THEN next ELSE next + 1)

\* the pairs the call of thread t writes when it runs alone
alone_written(t) ==
    LET local_types == local_types_from(thread_queue(t), 1, EmptyTable, 0)
    IN  [i \in 1..Len(thread_queue(t)) |->
           [record |-> thread_queue(t)[i], local_type |-> local_types[i]]]

\* no record held: before the loop, and between two of its passes
NoRecord == Record(0, <<>>)

\* at: the position in the file of the first pair that is not the pair of
\* alone_written, 0 when there is none so far
NoDeviation == [at |-> 0, record |-> NoRecord, local_type |-> 0]

\* a thread about to call create_workout_file on the shared writer: where
\* it is (pc), the index of its next append or of the list iterator (idx),
\* the record and the counter value it holds while it uses them, and the
\* first pair it wrote to its file that it does not write when alone
ThreadStart ==
    [pc |-> "clear_records", idx |-> 1, record |-> NoRecord, loaded |-> 0,
     deviation |-> NoDeviation]

Finished(thread) == thread.pc \in {"done", "ValueError", "KeyError"}

Running(thread) == thread.pc # "clear_records" /\ ~Finished(thread)

\* thread t takes one step and becomes next; ret.out records whether a
\* thread has ever taken a step while another one was inside its call
thread_step(t, next) ==
    /\ args' = [args EXCEPT ![t] = next]
    /\ ret' = [ret EXCEPT !.out = ret.out \/ \E u \in Threads \ {t} : Running(args[u])]
    /\ UNCHANGED <<disk, phase, next_record, data_size, crc, call, result, calls>>

\* clear(): self.data_records.clear()
thread_clear_records ==
    \E t \in Threads :
        /\ args[t].pc = "clear_records"
        /\ data_records' = <<>>
        /\ thread_step(t, [args[t] EXCEPT !.pc = "clear_table"])
        /\ UNCHANGED tableVars

\* clear(): self.local_message_types.clear()
thread_clear_table ==
    \E t \in Threads :
        /\ args[t].pc = "clear_table"
        /\ local_message_types' = EmptyTable
        /\ thread_step(t, [args[t] EXCEPT !.pc = "clear_next"])
        /\ UNCHANGED <<data_records, next_local_type>>

\* clear(): self.next_local_type = 0
thread_clear_next ==
    \E t \in Threads :
        /\ args[t].pc = "clear_next"
        /\ next_local_type' = 0
        /\ thread_step(t, [args[t] EXCEPT !.pc = "add"])
        /\ UNCHANGED <<data_records, local_message_types>>

\* self.data_records.append(...) of the next add_ call
thread_add_message ==
    \E t \in Threads :
        /\ args[t].pc = "add"
        /\ data_records' = Append(data_records, thread_queue(t)[args[t].idx])
        /\ thread_step(t, IF args[t].idx = Len(thread_queue(t))
                          THEN [args[t] EXCEPT !.pc = "check_queue", !.idx = 1]
                          ELSE [args[t] EXCEPT !.idx = @ + 1])
        /\ UNCHANGED tableVars

\* write_fit_file: if not self.data_records: raise ValueError
thread_check_queue ==
    \E t \in Threads :
        /\ args[t].pc = "check_queue"
        /\ thread_step(t, [args[t] EXCEPT !.pc = IF data_records = <<>> THEN "ValueError"
                                                 ELSE "next_record"])
        /\ UNCHANGED <<data_records, tableVars>>

\* for record in self.data_records: the list iterator gives the element at
\* its index, or ends the loop when the list is no longer than that; then
\* if global_type not in self.local_message_types
thread_next_record ==
    \E t \in Threads :
        /\ args[t].pc = "next_record"
        /\ thread_step(t,
             IF args[t].idx > Len(data_records)
             THEN [args[t] EXCEPT !.pc = "done"]
             ELSE [args[t] EXCEPT
                     !.pc = IF data_records[args[t].idx].global_type
                                 \in DOMAIN local_message_types
                            THEN "read_local" ELSE "assign",
                     !.record = data_records[args[t].idx],
                     !.idx = @ + 1])
        /\ UNCHANGED <<data_records, tableVars>>

\* self.local_message_types[global_type] = self.next_local_type
thread_assign ==
    \E t \in Threads :
        /\ args[t].pc = "assign"
        /\ local_message_types' =
             [g \in DOMAIN local_message_types \cup {args[t].record.global_type} |->
                IF g = args[t].record.global_type THEN next_local_type
                ELSE local_message_types[g]]
        /\ thread_step(t, [args[t] EXCEPT !.pc = "load_next"])
        /\ UNCHANGED <<data_records, next_local_type>>

\* self.next_local_type += 1: the load
thread_load_next ==
    \E t \in Threads :
        /\ args[t].pc = "load_next"
        /\ thread_step(t, [args[t] EXCEPT !.pc = "store_next", !.loaded = next_local_type])
        /\ UNCHANGED <<data_records, tableVars>>

\* variant of thread_store_next: the counter is stored as it was loaded
thread_store_next_same ==
    \E t \in Threads :
        /\ args[t].pc = "store_next"
        /\ next_local_type' = args[t].loaded
        /\ thread_step(t, [args[t] EXCEPT !.pc = "read_local", !.loaded = 0])
        /\ UNCHANGED <<data_records, local_message_types>>

\* self.next_local_type += 1: the store
thread_store_next ==
    \E t \in Threads :
        /\ args[t].pc = "store_next"
        /\ next_local_type' = args[t].loaded + 1
        /\ thread_step(t, [args[t] EXCEPT !.pc = "read_local", !.loaded = 0])
        /\ UNCHANGED <<data_records, local_message_types>>

\* the pair written at position at of the file of thread t: the deviation
\* is kept, or this pair becomes it
deviation_after(t, at, pair) ==
    IF args[t].deviation.at # 0 THEN args[t].deviation
    ELSE IF at <= Len(thread_queue(t)) /\ pair = alone_written(t)[at] THEN NoDeviation
    ELSE [at |-> at, record |-> pair.record, local_type |-> pair.local_type]

\* local_type = self.local_message_types[global_type], KeyError without the
\* key; then the definition and data message go to the thread's own file
thread_read_local ==
    \E t \in Threads :
        /\ args[t].pc = "read_local"
        /\ thread_step(t,
             IF args[t].record.global_type \in DOMAIN local_message_types
             THEN [args[t] EXCEPT
                     !.pc = "next_record",
                     !.record = NoRecord,
                     !.deviation =
                        deviation_after(t, args[t].idx - 1,
                            [record |-> args[t].record,
                             local_type |-> local_message_types[
                                                args[t].record.global_type]])]
             ELSE [args[t] EXCEPT !.pc = "KeyError", !.record = NoRecord])
        /\ UNCHANGED <<data_records, tableVars>>

ThreadInit ==
    /\ WriterStart(NoFile)
    /\ args = [t \in Threads |-> ThreadStart]
    /\ ret = [fn |-> "threads", out |-> FALSE]

ThreadNext ==
    \/ thread_clear_records
    \/ thread_clear_table
    \/ thread_clear_next
    \/ thread_add_message
    \/ thread_check_queue
    \/ thread_next_record
    \/ thread_assign
    \/ thread_load_next
    \/ thread_store_next
    \/ thread_read_local

\* two threads, each calling create_workout_file once on one shared writer,
\* switched between the statements of clear, _add_message and the loop of
\* write_fit_file, and inside the += of the counter
SpecThreads == ThreadInit /\ [][ThreadNext]_vars

\* the longest segment list of SpecEncodes
MaxEncodeSteps == 2

\* steady 600 s at 50%, warmup 300 s 50-75%, a type without a branch
EncodeSegments ==
    {Segment("steady", 600, 2, None, None),
     Segment("warmup", 300, None, 2, 3),
     Segment("freeride", 120, None, None, None)}

EncodeFtps == {250, 251, 300}

EncodeArgs ==
    [segments : SeqsUpTo(EncodeSegments, MaxEncodeSteps),
     objects : BOOLEAN,
     name : {<<84, 101, 115, 116>>},
     ftp : EncodeFtps,
     other_ftp : EncodeFtps,
     now : {1793570400}]

\* create_workout_file on two new writers, at ftp and at other_ftp
call_create_workout_file_twice ==
    /\ ret = NoRet
    /\ ret' = [fn |-> "create_workout_file",
               out |-> [first |-> create_workout_file_fresh(
                                      args.segments, args.objects, args.name,
                                      args.ftp, args.now),
                        second |-> create_workout_file_fresh(
                                       args.segments, args.objects, args.name,
                                       args.other_ftp, args.now)]]
    /\ UNCHANGED <<args, writerVars>>

\* create_workout_file on the segments as objects, and create_fit_file on
\* the same objects or on dicts of the same values
call_create_fit_file ==
    /\ ret = NoRet
    /\ ret' = [fn |-> "create_fit_file",
               out |-> [first |-> create_workout_file_fresh(
                                      args.segments, TRUE, args.name,
                                      args.ftp, args.now),
                        second |-> create_fit_file(
                                       args.segments, args.objects, args.name,
                                       args.ftp, args.now)]]
    /\ UNCHANGED <<args, writerVars>>

\* convert_zwo_to_fit on a file that parses to the segments; first is what
\* create_fit_file did, second what convert_zwo_to_fit returns.  When there
\* is a file to write, the open may also fail: False and no file
call_convert_zwo_to_fit ==
    /\ ret = NoRet
    /\ ~args.objects
    /\ LET made == create_fit_file(args.segments, FALSE, args.name, args.ftp, args.now)
       IN  \/ ret' = [fn |-> "convert_zwo_to_fit",
                      out |-> [first |-> made,
                               second |-> convert_zwo_to_fit(
                                              args.segments, args.name,
                                              args.ftp, args.now)]]
           \/ /\ made.file.exists
              /\ ret' = [fn |-> "convert_zwo_to_fit",
                         out |-> [first |-> Result("OSError", NoFile),
                                  second |-> Result("False", NoFile)]]
    /\ UNCHANGED <<args, writerVars>>

EncodeInit ==
    /\ WriterStart(NoFile)
    /\ args \in EncodeArgs
    /\ ret = NoRet

EncodeNext ==
    \/ call_create_workout_file_twice
    \/ call_create_fit_file
    \/ call_convert_zwo_to_fit

\* whole encodes of one workout, compared
SpecEncodes == EncodeInit /\ [][EncodeNext]_vars

----------------------------------------------------------------------------
(* Claims about calculate_ftp_targets, under SpecTargets *)

\* t is num/den (den > 0) with its fractional part dropped
IsTruncation(t, num, den) ==
    IF num >= 0
    THEN t * den <= num /\ num < (t + 1) * den
    ELSE t * den >= num /\ num > (t - 1) * den

\* the largest |ftp * q / 40| of the drawn arguments, plus one
HalfRangeLimit ==
    LET m == CHOOSE x \in FtpValues \ {None} :
                 \A y \in FtpValues \ {None} : Abs(y) <= Abs(x)
    IN  ((Abs(m) * MaxQ) \div 40) + 1

\* (lo, hi) is what the reference formula gives: midpoint(f) = 1000 + ftp*f,
\* half_range(f) = trunc(0.2*ftp*f/2), lo = trunc(midpoint(low) -
\* half_range(low)), hi = trunc(midpoint(high) + half_range(high)), with
\* f = q/4, so that midpoint is (4000 + ftp*q)/4 and 0.2*ftp*f/2 is ftp*q/40
MatchesReference(q_low, ftp, q_high, lo, hi) ==
    /\ \E h_low \in (-HalfRangeLimit)..HalfRangeLimit :
        /\ IsTruncation(h_low, ftp * q_low, 40)
        /\ IsTruncation(lo, 4000 + ftp * q_low - 4 * h_low, 4)
    /\ \E h_high \in (-HalfRangeLimit)..HalfRangeLimit :
        /\ IsTruncation(h_high, ftp * q_high, 40)
        /\ IsTruncation(hi, 4000 + ftp * q_high + 4 * h_high, 4)

Called == ret.fn # "none"

SingleValueCall == args.high = None \/ args.high = args.low

\* C1: with a numeric ftp both calculate_ftp_targets return the pair of the
\* reference formula, every step truncated toward zero, the two endpoints
\* of a range computed independently; (0.5, 280) gives (1126, 1154),
\* (0.75, 280) gives (1189, 1231) and (0.5, 280, high 0.75) gives (1126, 1231)
C1_ReferenceFormula ==
    (Called /\ args.ftp # None) =>
        /\ ret.out.kind = "ok"
        /\ MatchesReference(args.low, args.ftp,
                            IF args.high = None THEN args.low ELSE args.high,
                            ret.out.low, ret.out.high)
        /\ (args = [low |-> 2, ftp |-> 280, high |-> None]) => ret.out = Returned(1126, 1154)
        /\ (args = [low |-> 3, ftp |-> 280, high |-> None]) => ret.out = Returned(1189, 1231)
        /\ (args = [low |-> 2, ftp |-> 280, high |-> 3]) => ret.out = Returned(1126, 1231)

C1_Witness ==
    /\ ret.fn = "fit_writer"
    /\ args = [low |-> 2, ftp |-> 280, high |-> 3]
    /\ ret.out = Returned(1126, 1231)

\* C2 as claimed: for every power fraction and every ftp > 0, a single-value
\* call returns target_low <= target_high, both non-negative
C2_AnyFraction ==
    (Called /\ args.ftp # None /\ args.ftp > 0 /\ SingleValueCall) =>
        /\ ret.out.kind = "ok"
        /\ ret.out.low <= ret.out.high
        /\ ret.out.low >= 0
        /\ ret.out.high >= 0

\* C2 amended: for every power fraction >= 0 and every ftp > 0, a
\* single-value call returns target_low <= target_high, both non-negative
C2_NonNegativeFraction ==
    (Called /\ args.ftp # None /\ args.ftp > 0 /\ SingleValueCall /\ args.low >= 0) =>
        /\ ret.out.kind = "ok"
        /\ ret.out.low <= ret.out.high
        /\ ret.out.low >= 0
        /\ ret.out.high >= 0

C2_Witness ==
    /\ Called
    /\ args.ftp = 250
    /\ args.low = 4
    /\ args.high = None
    /\ ret.out.kind = "ok"
    /\ ret.out.low < ret.out.high

\* C3: the target computation fails whenever ftp is None or ftp <= 0, and
\* returns no pair for such an ftp
C3_RejectsBadFtp ==
    (Called /\ (args.ftp = None \/ args.ftp <= 0)) =>
        ret.out.kind \in {"ValueError", "TypeError"}

----------------------------------------------------------------------------
(* Claims about write_fit_file and create_workout_file, under Spec *)

\* the little-endian u32 at bytes[i..i+3]
U32At(bytes, i) ==
    bytes[i] + 256 * bytes[i + 1] + 65536 * bytes[i + 2] + 16777216 * bytes[i + 3]

\* the little-endian u16 at bytes[i..i+1]
U16At(bytes, i) == bytes[i] + 256 * bytes[i + 1]

\* the size on the wire of a field of a supported type
FieldSize(field) ==
    CASE field.type = "string" -> Len(field.data)
      [] field.type \in {"enum", "uint8"} -> 1
      [] field.type = "uint16" -> 2
      [] field.type = "uint32" -> 4

RECURSIVE FieldsSize(_, _)
FieldsSize(fields, from) ==
    IF from > Len(fields) THEN 0
    ELSE FieldSize(fields[from]) + FieldsSize(fields, from + 1)

\* definition message (6 bytes and 3 per field) plus data message (1 byte
\* and the fields)
MessageSize(record) ==
    6 + 3 * Len(record.fields) + 1 + FieldsSize(record.fields, 1)

RECURSIVE MessagesSize(_, _)
MessagesSize(records, from) ==
    IF from > Len(records) THEN 0
    ELSE MessageSize(records[from]) + MessagesSize(records, from + 1)

\* the number of message bytes a write of the queue produces
BodySize == MessagesSize(data_records, 1)

Succeeded == result.kind = "crc"

\* bytes 0..3 and 8..13 of a finalized header: 14, 32, 2105 little-endian,
\* ".FIT", 0 0
HasRealHeader(bytes) ==
    /\ Len(bytes) >= header_size
    /\ SubSeq(bytes, 1, 4) = <<14, 32, 57, 8>>
    /\ SubSeq(bytes, 9, 14) = <<46, 70, 73, 84, 0, 0>>

\* a complete valid file: finalized header, file_size = 14 + body_size + 2,
\* and the last two bytes the checksum of all that precedes them
CompleteValid(bytes) ==
    /\ HasRealHeader(bytes)
    /\ Len(bytes) = header_size + U32At(bytes, 5) + 2
    /\ U16At(bytes, Len(bytes) - 1) = _calculate_crc(SubSeq(bytes, 1, Len(bytes) - 2))

NothingToEncode ==
    \/ call'.method = "write_fit_file" /\ data_records = <<>>
    \/ call'.method = "create_workout_file" /\ call'.segments = <<>>

\* C4: a write_fit_file call on an empty queue and a create_workout_file
\* call with no segments raise ValueError without opening output_path: the
\* file there is neither created nor truncated
C4_EmptyRejectedBeforeOpen ==
    [][(calls' = calls + 1 /\ NothingToEncode) =>
          /\ result'.kind = "ValueError"
          /\ phase' = "Idle"
          /\ disk' = disk]_vars

C4_Witness ==
    /\ call.method = "create_workout_file"
    /\ call.segments = <<>>
    /\ result.kind = "ValueError"
    /\ CompleteValid(disk.bytes)

\* C5: after a successful write_fit_file the first 14 bytes of the file are
\* 14, 32, 2105 (little-endian), the number of message bytes written
\* (little-endian u32), ".FIT", 0 0
C5_HeaderBytes ==
    Succeeded =>
        /\ Len(disk.bytes) >= header_size
        /\ SubSeq(disk.bytes, 1, header_size) =
             <<14, 32, 57, 8,
               BodySize % 256, (BodySize \div 256) % 256,
               (BodySize \div 65536) % 256, BodySize \div 16777216,
               46, 70, 73, 84, 0, 0>>

C5_Witness ==
    /\ Succeeded
    /\ call.method = "write_fit_file"
    /\ disk.bytes[1] = 14
    /\ U32At(disk.bytes, 5) = BodySize

\* C6: a successfully written file has file_size = 14 + body_size + 2, with
\* body_size the little-endian u32 at header bytes 4..7
C6_SizeLaw ==
    Succeeded =>
        /\ Len(disk.bytes) >= header_size
        /\ Len(disk.bytes) = 14 + U32At(disk.bytes, 5) + 2

C6_Witness ==
    /\ Succeeded
    /\ call.method = "create_workout_file"
    /\ Len(disk.bytes) > 100
    /\ U32At(disk.bytes, 5) = Len(disk.bytes) - 16

\* C7: the last two bytes of a successfully written file are the
\* little-endian u16 of _calculate_crc over all the bytes before them, and
\* write_fit_file returns that value
C7_ChecksumTrailer ==
    Succeeded =>
        LET n == Len(disk.bytes)
            c == _calculate_crc(SubSeq(disk.bytes, 1, n - 2))
        IN  /\ n >= header_size + 2
            /\ disk.bytes[n - 1] = c % 256
            /\ disk.bytes[n] = c \div 256
            /\ result.value = c

C7_Witness ==
    /\ Succeeded
    /\ result.value > 255
    /\ U16At(disk.bytes, Len(disk.bytes) - 1) = result.value
    /\ HasRealHeader(disk.bytes)

\* the order of the assembly states, and the return to Idle that ends a call
Forward ==
    {<<"Idle", "Empty">>, <<"Empty", "HeaderReserved">>,
     <<"HeaderReserved", "MessagesWritten">>,
     <<"MessagesWritten", "HeaderFinalized">>,
     <<"HeaderFinalized", "ChecksumAppended">>,
     <<"ChecksumAppended", "Idle">>}

\* C8: write_fit_file goes Empty, HeaderReserved (14 zero bytes),
\* MessagesWritten, HeaderFinalized, ChecksumAppended in that order, each
\* once; a failure ends the call and only a new call starts again; the CRC
\* is computed when the real header is in place; a value is returned from
\* ChecksumAppended only
C8_AssemblyOrder ==
    [][/\ phase' # phase =>
            \/ <<phase, phase'>> \in Forward
            \/ phase' = "Idle" /\ result'.kind = "IOError"
       /\ (phase = "Idle" /\ phase' # "Idle") =>
            (calls' = calls + 1 /\ phase' = "Empty" /\ disk'.bytes = <<>>)
       /\ (phase # "HeaderReserved" /\ phase' = "HeaderReserved") =>
            disk'.bytes = zeros(14)
       /\ (crc' # crc /\ crc' # None) =>
            /\ phase = "HeaderFinalized"
            /\ HasRealHeader(disk.bytes)
            /\ crc' = _calculate_crc(disk.bytes)
       /\ (result' # result /\ result'.kind = "crc") =>
            (phase = "ChecksumAppended" /\ result'.value = crc)]_vars

C8_Witness ==
    /\ phase = "ChecksumAppended"
    /\ crc # None
    /\ CompleteValid(disk.bytes)

HasUnsupportedField(record) ==
    \E i \in 1..Len(record.fields) : record.fields[i].type \notin SupportedTypes

\* C9: writing a message with a field type outside enum, uint8, uint16,
\* uint32, string ends write_fit_file with an IOError carrying "Unsupported
\* field type"; a call that returns a CRC has written no such message
C9_UnsupportedTypeFails ==
    /\ [][(/\ phase = "HeaderReserved"
           /\ next_record <= Len(data_records)
           /\ HasUnsupportedField(data_records[next_record])) =>
             /\ phase' = "Idle"
             /\ result' = IOError("ValueError: Unsupported field type", TRUE)]_vars
    /\ [](Succeeded =>
            \A i \in 1..Len(data_records) : ~HasUnsupportedField(data_records[i]))

C9_Witness ==
    /\ result = IOError("ValueError: Unsupported field type", TRUE)
    /\ HasUnsupportedField(data_records[Len(data_records)])
    /\ disk.exists

\* C10: when write_fit_file has failed after opening output_path, the file
\* left there is not a complete valid file
C10_FailureLeavesNoValidFile ==
    (result.kind = "IOError" /\ result.opened) => ~CompleteValid(disk.bytes)

C10_Witness ==
    /\ result.kind = "IOError"
    /\ result.opened
    /\ HasRealHeader(disk.bytes)
    /\ Len(disk.bytes) = header_size + U32At(disk.bytes, 5) + 1

----------------------------------------------------------------------------
(* Claims about the local types and the message pairs, under SpecQueue *)

\* bytes[i], or -1 past either end
ByteAt(bytes, i) == IF i \in 1..Len(bytes) THEN bytes[i] ELSE -1

\* the n 3-byte field descriptors that start at pos
DescriptorsAt(bytes, pos, n) ==
    [i \in 1..n |-> <<ByteAt(bytes, pos + 3 * (i - 1)),
                      ByteAt(bytes, pos + 3 * (i - 1) + 1),
                      ByteAt(bytes, pos + 3 * (i - 1) + 2)>>]

RECURSIVE SizesFrom(_, _)
\* the sum of the sizes of descs[i..]; a size that is no byte counts 0
SizesFrom(descs, i) ==
    IF i > Len(descs) THEN 0
    ELSE (IF descs[i][2] > 0 THEN descs[i][2] ELSE 0) + SizesFrom(descs, i + 1)

RECURSIVE ValuesAt(_, _, _, _)
\* the field values that start at pos, each as long as its descriptor says
ValuesAt(bytes, pos, descs, i) ==
    IF i > Len(descs) THEN <<>>
    ELSE LET size == IF descs[i][2] > 0 THEN descs[i][2] ELSE 0
         IN  <<[k \in 1..size |-> ByteAt(bytes, pos + k - 1)]>>
                 \o ValuesAt(bytes, pos + size, descs, i + 1)

\* a definition message at pos and the data message after it, as a reader
\* of the file takes them apart; next is where the following message starts
PairAt(bytes, pos) ==
    LET n == IF ByteAt(bytes, pos + 5) > 0 THEN ByteAt(bytes, pos + 5) ELSE 0
        descs == DescriptorsAt(bytes, pos + 6, n)
        dpos == pos + 6 + 3 * n
    IN  [def_header |-> ByteAt(bytes, pos),
         reserved |-> ByteAt(bytes, pos + 1),
         architecture |-> ByteAt(bytes, pos + 2),
         global_type |-> ByteAt(bytes, pos + 3) + 256 * ByteAt(bytes, pos + 4),
         descriptors |-> descs,
         data_header |-> ByteAt(bytes, dpos),
         values |-> ValuesAt(bytes, dpos + 1, descs, 1),
         next |-> dpos + 1 + SizesFrom(descs, 1)]

RECURSIVE PairsFrom(_, _, _)
\* the pairs read from pos up to last
PairsFrom(bytes, pos, last) ==
    IF pos > last THEN <<>>
    ELSE LET pair == PairAt(bytes, pos)
         IN  <<pair>> \o PairsFrom(bytes, pair.next, last)

\* the messages of a complete file: what lies between header and checksum
MessagesOf(bytes) == PairsFrom(bytes, header_size + 1, Len(bytes) - 2)

GlobalTypes(records) == {records[i].global_type : i \in 1..Len(records)}

\* the zero-based rank of g's first occurrence among the first occurrences
Rank(records, g) ==
    LET first == CHOOSE i \in 1..Len(records) :
                     /\ records[i].global_type = g
                     /\ \A j \in 1..(i - 1) : records[j].global_type # g
    IN  Cardinality({records[j].global_type : j \in 1..(first - 1)})

\* C11: after write_fit_file the local type of each global type is the
\* zero-based rank of its first occurrence in the queue, every message of
\* that global type carries it in the file, and next_local_type is the
\* number of distinct global types
C11_FirstSeenOrder ==
    Succeeded =>
        LET msgs == MessagesOf(disk.bytes)
        IN  /\ DOMAIN local_message_types = GlobalTypes(data_records)
            /\ \A g \in GlobalTypes(data_records) :
                   local_message_types[g] = Rank(data_records, g)
            /\ next_local_type = Cardinality(GlobalTypes(data_records))
            /\ Len(msgs) = Len(data_records)
            /\ \A i \in 1..Len(data_records) :
                   msgs[i].data_header = Rank(data_records, data_records[i].global_type)

\* workout, file id, workout written: local types 0, 1, 0
C11_Witness ==
    /\ Succeeded
    /\ Len(data_records) = 3
    /\ data_records[1].global_type = 26
    /\ data_records[2].global_type = 0
    /\ data_records[3].global_type = 26
    /\ local_message_types[26] = 0
    /\ local_message_types[0] = 1
    /\ next_local_type = 2

\* C12: at the start of every write_fit_file call the local type table is
\* empty and next_local_type is 0
C12_TableResetAtStart ==
    [][(phase = "Idle" /\ phase' = "Empty") =>
          (local_message_types' = EmptyTable /\ next_local_type' = 0)]_vars

\* the base type byte of a supported field type
BaseType(type) ==
    CASE type = "string" -> 7
      [] type = "enum" -> 0
      [] type = "uint8" -> 2
      [] type = "uint16" -> 132
      [] type = "uint32" -> 134

\* v as size bytes, least significant first
LittleEndian(v, size) ==
    [k \in 1..size |->
        CASE k = 1 -> v % 256
          [] k = 2 -> (v \div 256) % 256
          [] k = 3 -> (v \div 65536) % 256
          [] k = 4 -> (v \div 16777216) % 256]

\* the bytes a reader expects for the value of a field
ValueBytes(field) ==
    IF field.type = "string" THEN field.data
    ELSE LittleEndian(field.value, FieldSize(field))

\* pair is the definition message of record followed by its data message
IsPairOf(pair, record) ==
    /\ pair.def_header >= 64
    /\ pair.def_header < 80
    /\ pair.reserved = 0
    /\ pair.architecture = 0
    /\ pair.global_type = record.global_type
    /\ Len(pair.descriptors) = Len(record.fields)
    /\ \A i \in 1..Len(record.fields) :
           pair.descriptors[i] = <<record.fields[i].num, FieldSize(record.fields[i]),
                                   BaseType(record.fields[i].type)>>
    /\ pair.data_header = pair.def_header - 64
    /\ Len(pair.values) = Len(record.fields)
    /\ \A i \in 1..Len(record.fields) : pair.values[i] = ValueBytes(record.fields[i])

\* C13: a written file holds, for each queued message in queue order, its
\* definition message (0x40|local_type, 0, 0, u16 global type, field count,
\* a 3-byte descriptor per field) and right after it its data message (the
\* same local_type, the field values in descriptor order); k messages give
\* exactly k pairs, a repeated global type included
C13_PairPerMessage ==
    Succeeded =>
        LET msgs == MessagesOf(disk.bytes)
        IN  /\ Len(msgs) = Len(data_records)
            /\ \A i \in 1..Len(data_records) : IsPairOf(msgs[i], data_records[i])
            /\ msgs[Len(msgs)].next = Len(disk.bytes) - 1

\* two workout steps in a row: the second has its own definition message
C13_Witness ==
    /\ Succeeded
    /\ Len(data_records) >= 2
    /\ data_records[1].global_type = 27
    /\ data_records[2].global_type = 27
    /\ LET second == PairAt(disk.bytes, PairAt(disk.bytes, header_size + 1).next)
       IN  second.def_header = 64 /\ second.global_type = 27 /\ second.data_header = 0

----------------------------------------------------------------------------
(* Claims about create_workout_file *)

\* the value of the field of record that has the number num
FieldValue(record, num) ==
    LET i == CHOOSE i \in 1..Len(record.fields) : record.fields[i].num = num
    IN  record.fields[i].value

CreateSucceeded == Succeeded /\ call.method = "create_workout_file"

FieldData(record, num) ==
    LET i == CHOOSE i \in 1..Len(record.fields) : record.fields[i].num = num
    IN  record.fields[i].data

RecognizedKinds == {"warmup", "cooldown", "steady", "interval_work", "interval_rest"}

\* the call is create_workout_file and its loop over the segments has run
StepsQueued ==
    /\ call.method = "create_workout_file"
    /\ call.segments # <<>>
    /\ result.kind \in {"pending", "crc", "IOError"}

\* C15: for every segment of a recognized kind create_workout_file queues a
\* step with duration_type 0, duration_value = duration * 1000, target_type
\* 4, target_value 0, intensity 2 (warmup), 3 (cooldown), 0 (steady,
\* interval_work), 1 (interval_rest), and the targets of the reference
\* formula for (power_start, power_end) of a warmup or cooldown and for
\* power of the other kinds
C15_StepOfRecognizedKind ==
    StepsQueued =>
        /\ Len(data_records) = Len(call.segments) + 2
        /\ \A i \in 1..Len(call.segments) :
               LET segment == call.segments[i]
                   step == data_records[i + 2]
                   ranged == segment.type \in {"warmup", "cooldown"}
               IN  segment.type \in RecognizedKinds =>
                       /\ FieldValue(step, 254) = i - 1
                       /\ FieldValue(step, 1) = 0
                       /\ FieldValue(step, 2) = segment.duration * 1000
                       /\ FieldValue(step, 3) = 4
                       /\ FieldValue(step, 4) = 0
                       /\ FieldValue(step, 7) =
                            (CASE segment.type = "warmup" -> 2
                               [] segment.type = "cooldown" -> 3
                               [] segment.type = "interval_rest" -> 1
                               [] OTHER -> 0)
                       /\ MatchesReference(
                              IF ranged THEN segment.power_start ELSE segment.power,
                              call.ftp,
                              IF ranged THEN segment.power_end ELSE segment.power,
                              FieldValue(step, 5), FieldValue(step, 6))

\* a cooldown 75% -> 25% followed by a rest interval, written
C15_Witness ==
    /\ CreateSucceeded
    /\ Len(call.segments) = 2
    /\ call.segments[1].type = "cooldown"
    /\ call.segments[2].type = "interval_rest"
    /\ FieldValue(data_records[3], 7) = 3
    /\ FieldValue(data_records[4], 7) = 1
    /\ FieldValue(data_records[4], 2) = 45000

\* C16: a segment of an unrecognized kind does not abort create_workout_file:
\* whatever its power fields hold, its step has the targets of
\* calculate_ftp_targets(0.5, ftp), intensity 0 and the name "Step k", k its
\* 1-based position, and the steps of the segments after it are queued too
C16_UnknownKindFallsBack ==
    (/\ call.method = "create_workout_file"
     /\ \E i \in 1..Len(call.segments) : call.segments[i].type \notin RecognizedKinds) =>
        /\ StepsQueued
        /\ Len(data_records) = Len(call.segments) + 2
        /\ \A i \in 1..Len(call.segments) :
               LET step == data_records[i + 2]
               IN  call.segments[i].type \notin RecognizedKinds =>
                       /\ FieldValue(step, 7) = 0
                       /\ MatchesReference(2, call.ftp, 2,
                                           FieldValue(step, 5), FieldValue(step, 6))
                       /\ FieldData(step, 0) =
                            <<83, 116, 101, 112, 32, 48 + i>> \o [k \in 1..10 |-> 0]

\* an unknown kind without powers first, a steady segment after it, written
C16_Witness ==
    /\ CreateSucceeded
    /\ Len(call.segments) = 2
    /\ call.segments[1].type = "freeride"
    /\ call.segments[1].power = None
    /\ call.segments[2].type = "steady"
    /\ FieldData(data_records[3], 0)[6] = 49
    /\ FieldValue(data_records[4], 254) = 1

----------------------------------------------------------------------------
(* Claims about the string fields, under SpecNames *)

\* the values of the string fields in the queue
StringFields ==
    UNION {{record.fields[j].data :
               j \in {k \in 1..Len(record.fields) : record.fields[k].type = "string"}} :
           record \in {data_records[i] : i \in 1..Len(data_records)}}

C18_Idempotent ==
    \A d \in StringFields : truncate_and_pad(d) = d

\* a buffer filled up to its 15th byte, in a workout message
C18_Witness ==
    /\ call.method = "add_workout_message"
    /\ \E d \in StringFields : d[1] = 65 /\ d[15] = 65 /\ truncate_and_pad(d) = d

----------------------------------------------------------------------------
(* Claims about _calculate_crc, under SpecCrc *)

\* one bit of the CRC-16 with the reflected polynomial 0xA001
ArcBit(c) == IF c % 2 = 1 THEN BitXor(c \div 2, 40961) ELSE c \div 2

\* one byte, bit by bit
ArcByte(c, byte) ==
    ArcBit(ArcBit(ArcBit(ArcBit(ArcBit(ArcBit(ArcBit(ArcBit(BitXor(c, byte)))))))))

RECURSIVE ArcFrom(_, _, _)
\* the bytes data[i..] in order, from the value c
ArcFrom(data, i, c) ==
    IF i > Len(data) THEN c ELSE ArcFrom(data, i + 1, ArcByte(c, data[i]))

\* C19: _calculate_crc gives 0 for empty data and for all data a value in
\* 0..0xFFFF, the one the algorithm started at 0 and run over the bytes in
\* order gives (low nibble, then high nibble, the CRC-16 of the table)
C19_CrcValue ==
    /\ ret.fn # "none" =>
          /\ ret.first \in 0..65535
          /\ ret.first = ArcFrom(args.data, 1, 0)
          /\ (args.data = <<>> => ret.first = 0)
    /\ ret.fn = "second" =>
          /\ ret.second \in 0..65535
          /\ ret.second = ArcFrom(changed_data, 1, 0)

\* b"\xa5\xa5", then b"\xa5\xff", which gives 0x103B
C19_Witness ==
    /\ ret.fn = "second"
    /\ args.data = <<165, 165>>
    /\ changed_data = <<165, 255>>
    /\ ret.second = 4155

\* C20: two data of the same length that differ in exactly one byte have
\* different CRCs
C20_OneByteChanges ==
    ret.fn = "second" => ret.first # ret.second

\* b"\x00" and b"\xff": 0 and 0x4040
C20_Witness ==
    /\ ret.fn = "second"
    /\ args.data = <<0>>
    /\ args.byte = 255
    /\ ret.first = 0
    /\ ret.second = 16448

----------------------------------------------------------------------------
(* Claims about documented values and ranges *)

DocstringCall == Called /\ args = [low |-> 2, ftp |-> 250, high |-> None]

C28_LowIsLowerBound ==
    StepsQueued =>
        \A i \in 3..Len(data_records) :
            FieldValue(data_records[i], 5) <= FieldValue(data_records[i], 6)

\* C30: _calculate_crc over a successfully written file, its two checksum
\* bytes included, is 0
C30_ResidueZero ==
    Succeeded => _calculate_crc(disk.bytes) = 0

\* a file whose checksum has two non-zero bytes
C30_Witness ==
    /\ Succeeded
    /\ disk.bytes[Len(disk.bytes)] # 0
    /\ disk.bytes[Len(disk.bytes) - 1] # 0
    /\ _calculate_crc(disk.bytes) = 0

----------------------------------------------------------------------------
(* Claims about the parser, under SpecParser *)

Parsed == ret.fn = "_parse_intervals_t"

\* C26: _parse_intervals_t gives, for Repeat = n, n interval_work segments
\* (OnDuration, OnPower), the first segment a work segment, each followed by
\* an interval_rest segment (OffDuration, OffPower), but for the last one
\* when OffDuration is 0: 2n segments when OffDuration > 0, 2n - 1 when
\* OffDuration = 0 and n >= 1, none when n <= 0
C26_IntervalsExpansion ==
    Parsed =>
        LET n == IF args.Repeat = None THEN 1 ELSE args.Repeat
            on == IF args.OnDuration = None THEN 60 ELSE args.OnDuration
            off == IF args.OffDuration = None THEN 60 ELSE args.OffDuration
            on_power == IF args.OnPower = None THEN 90 ELSE args.OnPower
            off_power == IF args.OffPower = None THEN 50 ELSE args.OffPower
            segments == ret.out
            work == {k \in 1..Len(segments) : segments[k].type = "interval_work"}
        IN  /\ n <= 0 => segments = <<>>
            /\ (n >= 1 /\ off > 0) => Len(segments) = 2 * n
            /\ (n >= 1 /\ off = 0) => Len(segments) = 2 * n - 1
            /\ n >= 1 => Cardinality(work) = n
            /\ \A k \in 1..Len(segments) :
                   IF k % 2 = 1
                   THEN /\ segments[k].type = "interval_work"
                        /\ segments[k].duration = on
                        /\ segments[k].power = on_power
                   ELSE /\ segments[k].type = "interval_rest"
                        /\ segments[k].duration = off
                        /\ segments[k].power = off_power

\* Repeat 2 with OffDuration 0: work, rest, work
C26_Witness ==
    /\ Parsed
    /\ args.Repeat = 2
    /\ args.OffDuration = 0
    /\ Len(ret.out) = 3
    /\ ret.out[3].type = "interval_work"

----------------------------------------------------------------------------
(* Claims about reuse of a writer, under Spec *)

\* C24: a writer may be reused: the file of every successful
\* create_workout_file call, whatever was called on the writer before, is
\* the file a writer just constructed writes for the same segments, name,
\* ftp and creation time; and clear() leaves an empty queue, an empty
\* table and next_local_type 0
C24_ReuseLikeFresh ==
    /\ CreateSucceeded =>
         /\ disk.exists
         /\ disk.bytes = fit_file(fresh_queue(call.segments, call.name,
                                              call.ftp, call.now))
    /\ (call.method = "clear" /\ result = ReturnedNone) =>
         /\ data_records = <<>>
         /\ local_message_types = EmptyTable
         /\ next_local_type = 0

\* the second call on a writer is a create_workout_file that succeeded
C24_Witness == CreateSucceeded /\ calls = 2 /\ Len(disk.bytes) > header_size

----------------------------------------------------------------------------
(* Claims about whole encodes, under SpecEncodes *)

\* the two 4-byte targets of every workout step message of a file
TargetBytes(bytes) ==
    LET messages == MessagesOf(bytes)
    IN  [i \in 1..Len(messages) |->
           IF messages[i].global_type = 27
           THEN <<messages[i].values[7], messages[i].values[8]>>
           ELSE <<>>]

\* create_workout_file has written the workout at two different FTP values
EncodedTwice ==
    /\ ret.fn = "create_workout_file"
    /\ ret.out.first.kind = "crc"
    /\ ret.out.second.kind = "crc"
    /\ args.ftp # args.other_ftp

\* some step has different targets at the two FTP values
TargetsDiffer ==
    \E i \in 1..Len(args.segments) :
        segment_targets(args.segments[i], args.ftp)
            # segment_targets(args.segments[i], args.other_ftp)

\* C21 as claimed: two encodes of the same workout at two different FTP
\* values have identical 14-byte headers, different step-target bytes and
\* different file contents
C21_DifferentFtpDifferentFile ==
    EncodedTwice =>
        LET one == ret.out.first.file.bytes
            two == ret.out.second.file.bytes
        IN  /\ SubSeq(one, 1, header_size) = SubSeq(two, 1, header_size)
            /\ TargetBytes(one) # TargetBytes(two)
            /\ one # two

\* C21 amended: two encodes of the same workout at two different FTP values
\* have identical 14-byte headers; their step-target bytes differ exactly
\* when some step's computed targets differ at the two values, and the file
\* contents differ exactly when the step-target bytes do
C21_DifferentTargetsDifferentFile ==
    EncodedTwice =>
        LET one == ret.out.first.file.bytes
            two == ret.out.second.file.bytes
        IN  /\ SubSeq(one, 1, header_size) = SubSeq(two, 1, header_size)
            /\ TargetBytes(one) # TargetBytes(two) <=> TargetsDiffer
            /\ one # two <=> TargetBytes(one) # TargetBytes(two)

\* FTP 250 and 300: same header, different targets, different files
C21_Witness ==
    /\ EncodedTwice
    /\ args.ftp = 250
    /\ args.other_ftp = 300
    /\ TargetsDiffer
    /\ ret.out.first.file.bytes # ret.out.second.file.bytes
    /\ SubSeq(ret.out.first.file.bytes, 1, header_size)
         = SubSeq(ret.out.second.file.bytes, 1, header_size)

\* create_workout_file has written a file and create_fit_file was called on
\* the same arguments
Compared == ret.fn = "create_fit_file" /\ ret.out.first.kind = "crc"

\* C22: create_workout_file and create_fit_file write byte-identical files
\* for the same segments, name, ftp and creation time
C22_SameEncoder == Compared => ret.out.second.file = ret.out.first.file

Converted == ret.fn = "convert_zwo_to_fit"

\* C23: convert_zwo_to_fit on a workout without segments returns False and
\* leaves no file at the output path
C23_EmptyWorkoutFails ==
    (Converted /\ args.segments = <<>>) =>
        /\ ret.out.second.kind = "False"
        /\ ~ret.out.second.file.exists

----------------------------------------------------------------------------
(* Claims about the ranges of written values, under SpecLimits *)

\* the value of the field lies in the range of its type
InRange(field) ==
    CASE field.type = "string" -> TRUE
      [] field.type \in {"enum", "uint8"} -> field.value >= 0 /\ field.value <= 255
      [] field.type = "uint16" -> field.value >= 0 /\ field.value <= 65535
      [] field.type = "uint32" ->
           IF field.data = <<>> THEN field.value >= 0
           ELSE field.data[1] >= 0 /\ field.data[1] <= 65535

AllInRange(records) ==
    \A i \in 1..Len(records) :
        \A j \in 1..Len(records[i].fields) : InRange(records[i].fields[j])

\* the bytes of the exact value of the field, least significant first
ExactBytes(field) ==
    IF field.type = "uint32" /\ field.data # <<>>
    THEN <<field.value % 256, field.value \div 256,
           field.data[1] % 256, field.data[1] \div 256>>
    ELSE ValueBytes(field)

\* a write_fit_file or create_workout_file that got as far as writing the
\* queue has ended
WroteQueue ==
    /\ phase = "Idle"
    /\ result.kind # "pending"
    /\ \/ call.method = "write_fit_file" /\ data_records # <<>>
       \/ call.method = "create_workout_file" /\ call.segments # <<>>

\* a segment of 4294968 s or more, or one whose computed target is negative
BeyondRange(segment, ftp) ==
    \/ segment.duration >= 4294968
    \/ LET targets == segment_targets(segment, ftp)
       IN  targets.kind = "ok" /\ (targets.low < 0 \/ targets.high < 0)

\* C29: no value is wrapped modulo 2^32 or 2^16: a file that was written
\* holds the exact value of every field, each within the range of its type;
\* with a duration in milliseconds or a target outside 0..2^32-1, or a step
\* count or index outside 0..2^16-1, in the queue the write ends in IOError;
\* create_workout_file does not succeed for a segment of 4294968 s or more
\* or with a negative computed target
C29_NoWrap ==
    /\ Succeeded =>
         /\ AllInRange(data_records)
         /\ LET messages == MessagesOf(disk.bytes)
            IN  \A i \in 1..Len(data_records) :
                    \A j \in 1..Len(data_records[i].fields) :
                        messages[i].values[j] = ExactBytes(data_records[i].fields[j])
    /\ (WroteQueue /\ ~AllInRange(data_records)) => result.kind = "IOError"
    /\ (call.method = "create_workout_file" /\ phase = "Idle"
          /\ \E i \in 1..Len(call.segments) : BeyondRange(call.segments[i], call.ftp))
         => result.kind = "IOError"

\* 4294968 s: struct.error inside write_fit_file, raised as IOError, after
\* the step of 4294967 s before it was written
C29_Witness ==
    /\ call.method = "create_workout_file"
    /\ Len(call.segments) = 2
    /\ call.segments[1].duration = 4294967
    /\ call.segments[2].duration = 4294968
    /\ result.kind = "IOError"
    /\ result.cause = "struct.error"
    /\ next_record = 4
    /\ Len(disk.bytes) = 201

----------------------------------------------------------------------------
(* Claims about a writer shared by threads, under SpecThreads *)

Quiescent == \A t \in Threads : ~Running(args[t])

SharedLocalType ==
    \E g, h \in DOMAIN local_message_types :
        g # h /\ local_message_types[g] = local_message_types[h]

\* the file of a finished call is not the one the call writes alone: a
\* pair differs, or there are fewer or more pairs
OtherFile(t) ==
    /\ args[t].pc = "done"
    /\ args[t].deviation.at # 0 \/ args[t].idx - 1 # Len(thread_queue(t))

\* what no run of the calls one after the other shows: two global types
\* with one local type; a call that raised; a file other than the one the
\* call writes alone; between calls, a counter that is not the size of the
\* table or a queue that is not the queue of one call
Anomaly ==
    \/ SharedLocalType
    \/ \E t \in Threads : args[t].pc \in {"ValueError", "KeyError"}
    \/ \E t \in Threads : OtherFile(t)
    \/ /\ Quiescent
       /\ \/ next_local_type # Cardinality(DOMAIN local_message_types)
          \/ data_records \notin {<<>>} \cup {thread_queue(t) : t \in Threads}

\* C25: sharing a writer between two threads is unsafe only through
\* interleaving: a table, counter, queue or file that differs from those of
\* the sequential executions occurs only when the two encodes overlapped
C25_AnomalyNeedsOverlap == Anomaly => ret.out

\* the two encodes overlapped: two global types share a local type,
\* next_local_type is not the size of the table, and a thread has finished
\* a file in which the bytes of a message are not those it writes alone
C25_Witness ==
    /\ ret.out
    /\ Quiescent
    /\ SharedLocalType
    /\ next_local_type # Cardinality(DOMAIN local_message_types)
    /\ \E t \in Threads :
           /\ OtherFile(t)
           /\ args[t].deviation.at \in 1..Len(thread_queue(t))
           /\ _write_message_pair(args[t].deviation.record,
                                  args[t].deviation.local_type).bytes
                # _write_message_pair(
                      alone_written(t)[args[t].deviation.at].record,
                      alone_written(t)[args[t].deviation.at].local_type).bytes

====
